---------------------------- MODULE Spec2Model ----------------------------
(***************************************************************************)
(* A model of the MQTT 3.1/3.1.1 message codec (package mqtt): the fixed   *)
(* header, the primitive readers and writers, and the per-type messages.   *)
(*                                                                         *)
(* A byte is a number 0..255 and a byte string a sequence of bytes.  An    *)
(* io.Reader handed to Decode is a record [data, pos].  The message's      *)
(* bytes.Buffer is a record [st, off, len]: st is the backing array (its   *)
(* contents survive Reset), off the read offset and len the length of the  *)
(* buffer's slice, so the unread bytes are st[off+1 .. len].  A []byte     *)
(* field of a message is a slice descriptor: either a slice the caller     *)
(* owns, [a |-> "own", v |-> bytes], or a slice of the message's own       *)
(* buffer as returned by bytes.Buffer.Next, [a |-> "buf", off, len], whose *)
(* contents are whatever the backing array holds now.  The packets of the  *)
(* model are shorter than bytes.MinRead (512), so the backing array that   *)
(* the first Decode allocates is never reallocated afterwards.             *)
(***************************************************************************)
EXTENDS Integers, Sequences, FiniteSets, TLC

VARIABLES
    msg,    \* the message object the calls are made on
    pre,    \* the same object as it was right before the last call
    cur,    \* the last call: its name, arguments and results
    prev,   \* the call before the last one
    peer,   \* a second, freshly constructed message decoded from cur.out
    nops    \* the number of calls made so far

vars == <<msg, pre, cur, prev, peer, nops>>

\* The number of calls made on one message object.
MaxOps == 3

\* The number of calls made on a ConnectMessage, which starts out filled by
\* its setters.
MaxConnectOps == 2

\* The number of calls made on a bare fixedHeader.
MaxHeaderOps == 1

-----------------------------------------------------------------------------
(* Bytes and bits *)

\* F applied to v: names an intermediate result, as a local variable of the
\* code does
With(v, F(_)) == F(v)

Max(a, b) == IF a >= b THEN a ELSE b

Min(a, b) == IF a <= b THEN a ELSE b

Pow2(k) == 2 ^ k

\* bit k of b, as 0 or 1: (b >> k) & 1
Bit(b, k) == (b \div Pow2(k)) % 2

\* b | (1 << k)
SetBit(b, k) == IF Bit(b, k) = 1 THEN b ELSE b + Pow2(k)

\* b &^ (1 << k)
ClearBit(b, k) == IF Bit(b, k) = 1 THEN b - Pow2(k) ELSE b

-----------------------------------------------------------------------------
(* Constants of the package *)

maxLPString == 65535

maxRemainingLength == 268435455

RESERVED == 0
CONNECT == 1
CONNACK == 2
PUBLISH == 3
PUBACK == 4
PUBREC == 5
PUBREL == 6
PUBCOMP == 7
SUBSCRIBE == 8
SUBACK == 9
UNSUBSCRIBE == 10
UNSUBACK == 11
PINGREQ == 12
PINGRESP == 13
DISCONNECT == 14
RESERVED2 == 15

QosAtMostOnce == 0
QosAtLeastOnce == 1
QosExactlyOnce == 2
QosFailure == 128

\* MessageType.Valid
Valid(mtype) == mtype > RESERVED /\ mtype < RESERVED2

\* MessageType.DefaultFlags
\* default flags with those of SUBSCRIBE left at 0
DefaultFlagsButSubscribe(mtype) ==
    IF mtype \in {PUBREL, UNSUBSCRIBE} THEN 2 ELSE 0

DefaultFlags(mtype) ==
    IF mtype \in {PUBREL, SUBSCRIBE, UNSUBSCRIBE} THEN 2 ELSE 0

ValidQos(qos) ==
    qos = QosAtMostOnce \/ qos = QosAtLeastOnce \/ qos = QosExactlyOnce

\* a check of the topic that looks for '#' (35) only
ValidTopicButStar(topic) ==
    /\ Len(topic) > 0
    /\ \A i \in 1..Len(topic) : topic[i] # 35

\* len(topic) > 0 and neither '#' (35) nor '*' (42) occurs in it
ValidTopic(topic) ==
    /\ Len(topic) > 0
    /\ \A i \in 1..Len(topic) : topic[i] # 35 /\ topic[i] # 42

\* the regular expression ^[0-9a-zA-Z_]*$, which takes '_' (95) too
ValidClientIdOrUnderscore(cid) ==
    \A i \in 1..Len(cid) :
        \/ cid[i] \in 48..57
        \/ cid[i] \in 65..90
        \/ cid[i] = 95
        \/ cid[i] \in 97..122

\* the regular expression ^[0-9a-zA-Z]*$
ValidClientId(cid) ==
    \A i \in 1..Len(cid) :
        \/ cid[i] \in 48..57
        \/ cid[i] \in 65..90
        \/ cid[i] \in 97..122

\* SupportedVersions: 0x3 -> "MQIsdp", 0x4 -> "MQTT"
ValidVersion(v) == v \in {3, 4}

SupportedVersions(v) ==
    IF v = 3 THEN <<77, 81, 73, 115, 100, 112>> ELSE <<77, 81, 84, 84>>

-----------------------------------------------------------------------------
(* io.Reader and bytes.Buffer *)

NewReader(data) == [data |-> data, pos |-> 0]

\* the bytes the reader still holds
Rest(r) == SubSeq(r.data, r.pos + 1, Len(r.data))

EmptyBuf == [st |-> <<>>, off |-> 0, len |-> 0]

\* bytes.Buffer.Len
BufLen(b) == b.len - b.off

\* the unread bytes: what a reader of the buffer gets
BufBytes(b) == SubSeq(b.st, b.off + 1, b.len)

\* bytes.Buffer.Reset: the slice is emptied, the array keeps its contents
BufReset(b) == [b EXCEPT !.off = 0, !.len = 0]

\* array st with p copied to positions at+1 .. at+Len(p)
Overwrite(st, at, p) ==
    [i \in 1..Max(Len(st), at + Len(p)) |->
        IF i > at /\ i <= at + Len(p) THEN p[i - at] ELSE st[i]]

\* bytes.Buffer.Write / WriteByte: append p at the end of the slice
BufWrite(b, p) ==
    [b EXCEPT !.st = Overwrite(b.st, b.len, p), !.len = b.len + Len(p)]

\* bytes.Buffer.ReadFrom as io.CopyN calls it: an empty buffer is reset
\* first (grow), then the bytes read are appended
BufReadFrom(b, p) ==
    BufWrite(IF BufLen(b) = 0 /\ b.off # 0 THEN BufReset(b) ELSE b, p)

\* bytes.Buffer.Next(n): skip n unread bytes (n <= BufLen(b))
BufNext(b, n) == [b EXCEPT !.off = b.off + Min(n, BufLen(b))]

\* bytes.Buffer.ReadByte: [b, c, err]
BufReadByte(b) ==
    IF BufLen(b) = 0
    THEN [b |-> BufReset(b), c |-> 0, err |-> "EOF"]
    ELSE [b |-> [b EXCEPT !.off = b.off + 1], c |-> b.st[b.off + 1],
          err |-> "ok"]

\* io.CopyN(buf, src, n): [b, r, n, err]
CopyN(b, r, n) ==
    LET k == Min(n, Len(r.data) - r.pos)
    IN  [b |-> BufReadFrom(b, SubSeq(r.data, r.pos + 1, r.pos + k)),
         r |-> [r EXCEPT !.pos = r.pos + k],
         n |-> k,
         err |-> IF k < n THEN "EOF" ELSE "ok"]

\* slice descriptors
Own(v) == [a |-> "own", v |-> v]

Alias(off, len) == [a |-> "buf", off |-> off, len |-> len]

\* len(s)
SLen(s) == IF s.a = "own" THEN Len(s.v) ELSE s.len

\* the bytes slice s holds now, b being the message's buffer
Val(b, s) ==
    IF s.a = "own" THEN s.v ELSE SubSeq(b.st, s.off + 1, s.off + s.len)

-----------------------------------------------------------------------------
(* Primitive readers and writers.  An error is a string, "ok" being nil. *)

\* a readUint16 that gives 0 and no error when the buffer is short
readUint16Lax(b) ==
    IF BufLen(b) < 2
    THEN [b |-> b, v |-> 0, err |-> "ok"]
    ELSE [b |-> BufNext(b, 2),
          v |-> b.st[b.off + 1] * 256 + b.st[b.off + 2],
          err |-> "ok"]

\* readUint16(buf): [b, v, err]
readUint16(b) ==
    IF BufLen(b) < 2
    THEN [b |-> b, v |-> 0, err |-> "insufficient"]
    ELSE [b |-> BufNext(b, 2),
          v |-> b.st[b.off + 1] * 256 + b.st[b.off + 2],
          err |-> "ok"]

\* writeUint16(buf, n): the buffer with the two big-endian bytes appended
writeUint16(b, n) == BufWrite(b, <<(n \div 256) % 256, n % 256>>)

\* readLPBytes(buf): [b, s, n, err]; s is a slice of the buffer's array
readLPBytes(b) ==
    With(readUint16(b), LAMBDA u :
        IF u.err # "ok"
        THEN [b |-> u.b, s |-> Own(<<>>), n |-> 2, err |-> u.err]
        ELSE IF BufLen(u.b) < u.v
        THEN [b |-> u.b, s |-> Own(<<>>), n |-> 2, err |-> "insufficient"]
        ELSE [b |-> BufNext(u.b, u.v), s |-> Alias(u.b.off, u.v),
              n |-> 2 + u.v, err |-> "ok"])

\* writeLPBytes(buf, s): [b, n, err]; the length is written first, then the
\* bytes s holds at that moment
writeLPBytes(b, s) ==
    IF SLen(s) > maxLPString
    THEN [b |-> b, n |-> 0, err |-> "toolong"]
    ELSE With(writeUint16(b, SLen(s)), LAMBDA b1 :
             [b |-> BufWrite(b1, Val(b1, s)), n |-> 2 + SLen(s),
              err |-> "ok"])

\* the loop of readVarint32 from its i-th iteration on, x accumulated so far
RECURSIVE readVarintLoop(_, _, _)
readVarintLoop(p, i, x) ==
    IF i = 4 THEN [x |-> x, i |-> 4, err |-> "ok"]
    ELSE IF Len(p) <= i THEN [x |-> 0, i |-> i, err |-> "EOF"]
    ELSE IF p[i + 1] < 128
    THEN [x |-> x + p[i + 1] * (128 ^ i), i |-> i, err |-> "ok"]
    ELSE readVarintLoop(p, i + 1, x + (p[i + 1] % 128) * (128 ^ i))

\* readVarint32(dst, src): [x, n, err, used, wr]; n is the returned count,
\* used the number of bytes taken from src, wr the bytes written to dst
readVarint32(r) ==
    With(readVarintLoop(Rest(r), 0, 0), LAMBDA l :
        IF l.err # "ok"
        THEN [x |-> 0, n |-> l.i + 1, err |-> l.err, used |-> l.i,
              wr |-> <<>>]
        ELSE IF l.i > 3
        THEN [x |-> l.x, n |-> l.i + 1, err |-> "malformed", used |-> 4,
              wr |-> <<>>]
        ELSE [x |-> l.x, n |-> l.i + 1, err |-> "ok", used |-> l.i + 1,
              wr |-> SubSeq(Rest(r), 1, l.i + 1)])

\* bytes that keep the continuation bit off a group of exactly 128
RECURSIVE varintBytesLate(_)
varintBytesLate(x) ==
    IF x > 128 THEN <<(x % 128) + 128>> \o varintBytesLate(x \div 128)
    ELSE <<x % 256>>

\* the bytes writeVarint32 puts in its local array for x
RECURSIVE varintBytes(_)
varintBytes(x) ==
    IF x >= 128 THEN <<(x % 128) + 128>> \o varintBytes(x \div 128)
    ELSE <<x % 256>>

\* writeVarint32(dst, x): [b, n, err]
writeVarint32(b, x) ==
    IF x > maxRemainingLength
    THEN [b |-> b, n |-> 0, err |-> "exceeded"]
    ELSE [b |-> BufWrite(b, varintBytes(x)), n |-> Len(varintBytes(x)),
          err |-> "ok"]

-----------------------------------------------------------------------------
(* fixedHeader: [buf, remlen, mtype, flags] *)

ZeroHeader == [buf |-> EmptyBuf, remlen |-> 0, mtype |-> RESERVED, flags |-> 0]

\* fixedHeader.resetBuf
resetBuf(h) == [h EXCEPT !.buf = BufReset(h.buf)]

\* fixedHeader.SetType: [h, err]
SetType(h, mtype) ==
    IF ~Valid(mtype) THEN [h |-> h, err |-> "invalidtype"]
    ELSE [h |-> [h EXCEPT !.mtype = mtype, !.flags = DefaultFlags(mtype)],
          err |-> "ok"]

\* fixedHeader.SetRemainingLength: [h, err]
SetRemainingLength(h, remlen) ==
    IF remlen > maxRemainingLength \/ remlen < 0
    THEN [h |-> h, err |-> "outofbound"]
    ELSE [h |-> [h EXCEPT !.remlen = remlen], err |-> "ok"]

\* fixedHeader.Encode: [h, n, err]
fixedHeaderEncode(h) ==
    IF h.remlen > maxRemainingLength THEN [h |-> h, n |-> 0, err |-> "toobig"]
    ELSE IF ~Valid(h.mtype) THEN [h |-> h, n |-> 0, err |-> "invalidtype"]
    ELSE With(writeVarint32(BufWrite(BufReset(h.buf),
                                     <<h.mtype * 16 + h.flags>>), h.remlen),
              LAMBDA w :
                  [h |-> [h EXCEPT !.buf = w.b], n |-> 1 + w.n, err |-> w.err])

\* fixedHeader.copy from the remaining length on; h has the flags of the first
\* byte, r is the source after that byte: [h, r, n, err]
fixedHeaderCopyBody(h, r) ==
    With(readVarint32(r), LAMBDA v :
        With([h |-> [h EXCEPT !.remlen = v.x, !.buf = BufWrite(h.buf, v.wr)],
              r |-> [r EXCEPT !.pos = r.pos + v.used]],
             LAMBDA s :
        IF v.err # "ok"
        THEN [h |-> s.h, r |-> s.r, n |-> 1 + v.n, err |-> v.err]
        ELSE With(CopyN(BufNext(s.h.buf, v.n), s.r, v.x), LAMBDA c2 :
            IF c2.err # "ok"
            THEN [h |-> [s.h EXCEPT !.buf = c2.b], r |-> c2.r,
                  n |-> 1 + v.n + c2.n, err |-> c2.err]
            ELSE [h |-> [s.h EXCEPT !.buf = c2.b], r |-> c2.r,
                  n |-> 1 + v.n, err |-> "ok"])))

\* fixedHeader.copy after the first byte c was read back from the buffer; h
\* holds the buffer, r is the source after that byte: [h, r, n, err]
fixedHeaderCopyByte(h, r, c) ==
    IF ~Valid(c \div 16)
    THEN [h |-> h, r |-> r, n |-> 1, err |-> "invalidtype"]
    ELSE IF c \div 16 # h.mtype
    THEN [h |-> h, r |-> r, n |-> 1, err |-> "wrongtype"]
    ELSE IF h.mtype # PUBLISH /\ c % 16 # DefaultFlags(h.mtype)
    THEN [h |-> [h EXCEPT !.flags = c % 16], r |-> r, n |-> 1,
          err |-> "invalidflags"]
    ELSE IF h.mtype = PUBLISH /\ ~ValidQos(((c % 16) \div 2) % 4)
    THEN [h |-> [h EXCEPT !.flags = c % 16], r |-> r, n |-> 1,
          err |-> "invalidqos"]
    ELSE fixedHeaderCopyBody([h EXCEPT !.flags = c % 16], r)

\* a copy that takes the first byte of the remaining length from the source
\* together with the first byte of the packet
fixedHeaderCopyAhead(h, r) ==
    With(CopyN(h.buf, r, 1), LAMBDA c1 :
        IF c1.err # "ok"
        THEN [h |-> [h EXCEPT !.buf = c1.b], r |-> c1.r, n |-> 0,
              err |-> c1.err]
        ELSE With(BufReadByte(c1.b), LAMBDA rb :
                 With(fixedHeaderCopyByte([h EXCEPT !.buf = rb.b], c1.r, rb.c),
                      LAMBDA x :
                     IF x.err \in {"invalidtype", "wrongtype", "invalidflags",
                                   "invalidqos"}
                     THEN [x EXCEPT !.r.pos = Min(@ + 1, Len(r.data))]
                     ELSE x)))

\* fixedHeader.copy: [h, r, n, err]
fixedHeaderCopy(h, r) ==
    With(CopyN(h.buf, r, 1), LAMBDA c1 :
        IF c1.err # "ok"
        THEN [h |-> [h EXCEPT !.buf = c1.b], r |-> c1.r, n |-> 0,
              err |-> c1.err]
        ELSE With(BufReadByte(c1.b), LAMBDA rb :
                 fixedHeaderCopyByte([h EXCEPT !.buf = rb.b], c1.r, rb.c)))

\* fixedHeader.Decode: [h, r, n, err]
fixedHeaderDecode(h, r) ==
    With(fixedHeaderCopy(resetBuf(h), r), LAMBDA c :
        IF c.err # "ok" THEN c
        ELSE IF c.h.remlen # BufLen(c.h.buf)
        THEN [c EXCEPT !.err = "insufficient"]
        ELSE c)

-----------------------------------------------------------------------------
(* The record of a call, and the step every call makes *)

Call(op, err, n, inp, used, out) ==
    [op |-> op, err |-> err, n |-> n, inp |-> inp, used |-> used, out |-> out]

NoCall == Call("none", "ok", 0, <<>>, 0, <<>>)

NoPeer == [op |-> "none"]

\* the number of calls made on message m
Budget(m) ==
    IF DOMAIN m = {"h"} THEN MaxHeaderOps
    ELSE IF m.h.mtype = CONNECT THEN MaxConnectOps
    ELSE MaxOps

\* a call on msg that leaves it as m2 and is recorded as call
Step(m2, call) ==
    /\ nops < Budget(msg)
    /\ msg' = m2
    /\ pre' = msg
    /\ cur' = call
    /\ prev' = cur
    /\ peer' = NoPeer
    /\ nops' = nops + 1

\* a setter, s being the [m, err] it returns
SetterStep(op, s) == Step(s.m, Call(op, s.err, 0, <<>>, 0, <<>>))

\* a setter that returns no error
Set(m) == [m |-> m, err |-> "ok"]

\* Decode of source bytes inp, d being what the message's Decode returned
DecodeStep(inp, d) == Step(d.m, Call("Decode", d.err, d.n, inp, d.r.pos, <<>>))

\* Encode, e being what the message's Encode returned; the stream returned
\* is the message's buffer
EncodeStep(e) ==
    Step(e.m, Call("Encode", e.err, e.n, <<>>, 0,
                   IF e.err = "ok" THEN BufBytes(e.m.h.buf) ELSE <<>>))

\* the stream of a successful Encode is decoded into a fresh message; d is
\* what that message's Decode returned
PeerStep(d) ==
    /\ cur.op = "Encode" /\ cur.err = "ok" /\ peer = NoPeer
    /\ peer' = [op |-> "Decode", m |-> d.m, n |-> d.n, err |-> d.err]
    /\ UNCHANGED <<msg, pre, cur, prev, nops>>

InitWith(m) ==
    /\ msg = m
    /\ pre = m
    /\ cur = NoCall
    /\ prev = NoCall
    /\ peer = NoPeer
    /\ nops = 0

-----------------------------------------------------------------------------
(* PubackMessage: [h, packetId] *)

NewPubackMessage == [h |-> SetType(ZeroHeader, PUBACK).h, packetId |-> 0]

\* PubackMessage.Decode: [m, r, n, err]
PubackDecode(m, r) ==
    With(fixedHeaderDecode(m.h, r), LAMBDA d :
        IF d.err # "ok"
        THEN [m |-> [m EXCEPT !.h = d.h], r |-> d.r, n |-> d.n, err |-> d.err]
        ELSE With(readUint16(d.h.buf), LAMBDA u :
            [m |-> [m EXCEPT !.h = [d.h EXCEPT !.buf = u.b],
                             !.packetId = u.v],
             r |-> d.r,
             n |-> IF u.err # "ok" THEN 0 ELSE d.n + 2,
             err |-> u.err]))

\* PubackMessage.Encode: [m, n, err]
PubackEncode(m) ==
    With(fixedHeaderEncode(SetRemainingLength(m.h, 2).h), LAMBDA e :
        IF e.err # "ok"
        THEN [m |-> [m EXCEPT !.h = e.h], n |-> 0, err |-> e.err]
        ELSE [m |-> [m EXCEPT !.h = [e.h EXCEPT
                                       !.buf = writeUint16(e.h.buf, m.packetId)]],
              n |-> e.n + 2, err |-> "ok"])

\* packet identifiers given to SetPacketId
PacketIds == {7, 258}

\* byte sources handed to PubackMessage.Decode: well-formed packets, packets
\* with a longer or shorter body than the two bytes of the identifier, a
\* source that ends early, wrong first bytes, and malformed lengths
PubackSources ==
    { <<64, 2, 0, 7>>, <<64, 2, 1, 2>>, <<64, 2, 0, 7, 99>>,
      <<64, 3, 0, 7, 9>>, <<64, 4, 1, 2, 3, 4>>, <<64, 130, 0, 0, 7>>,
      <<64, 1, 7>>, <<64, 0>>, <<64, 2, 0>>, <<64>>, <<>>,
      <<65, 2, 0, 7>>, <<80, 2, 0, 7>>, <<0, 2, 0, 7>>, <<240, 0>>,
      <<64, 255, 255, 255, 255, 1>>, <<64, 128>> }

PubackSetPacketId ==
    \E v \in PacketIds :
        SetterStep("SetPacketId", Set([msg EXCEPT !.packetId = v]))

PubackDecodeCall ==
    \E inp \in PubackSources :
        DecodeStep(inp, PubackDecode(msg, NewReader(inp)))

PubackEncodeCall == EncodeStep(PubackEncode(msg))

PubackPeerDecode ==
    PeerStep(PubackDecode(NewPubackMessage, NewReader(cur.out)))

NextPuback ==
    \/ PubackSetPacketId
    \/ PubackDecodeCall
    \/ PubackEncodeCall
    \/ PubackPeerDecode

SpecPuback == InitWith(NewPubackMessage) /\ [][NextPuback]_vars

-----------------------------------------------------------------------------
(* PublishMessage: [h, packetId, topic, payload]; topic and payload are     *)
(* slice descriptors                                                        *)

NewPublishMessage ==
    [h |-> SetType(ZeroHeader, PUBLISH).h, packetId |-> 0,
     topic |-> Own(<<>>), payload |-> Own(<<>>)]

\* PublishMessage.QoS, Dup, Retain on the header flags
QoS(flags) == (flags \div 2) % 4

Dup(flags) == Bit(flags, 3) = 1

Retain(flags) == Bit(flags, 0) = 1

\* PublishMessage.SetQoS: [m, err]
SetQoS(m, v) ==
    IF v # 0 /\ v # 1 /\ v # 2 THEN [m |-> m, err |-> "invalidqos"]
    ELSE [m |-> [m EXCEPT !.h.flags = (m.h.flags - 2 * QoS(m.h.flags)) + 2 * v],
          err |-> "ok"]

\* PublishMessage.SetDup
SetDup(m, v) ==
    [m EXCEPT !.h.flags = IF v THEN SetBit(m.h.flags, 3)
                          ELSE ClearBit(m.h.flags, 3)]

\* PublishMessage.SetRetain
SetRetain(m, v) ==
    [m EXCEPT !.h.flags = IF v THEN SetBit(m.h.flags, 0)
                          ELSE ClearBit(m.h.flags, 0)]

\* PublishMessage.SetTopic: [m, err]
SetTopic(m, v) ==
    IF ~ValidTopic(v) THEN [m |-> m, err |-> "invalidtopic"]
    ELSE [m |-> [m EXCEPT !.topic = Own(v)], err |-> "ok"]

\* PublishMessage.Decode after the topic: the packet identifier, read as u
\* when the QoS is not 0, and the payload; n is the count so far
PublishDecodeRest(m, r, n, u) ==
    IF u.err # "ok"
    THEN [m |-> [m EXCEPT !.h.buf = u.b, !.packetId = u.v], r |-> r, n |-> 0,
          err |-> u.err]
    ELSE [m |-> [m EXCEPT !.packetId = u.v,
                          !.payload = Alias(u.b.off, BufLen(u.b)),
                          !.h.buf = BufNext(u.b, BufLen(u.b))],
          r |-> r,
          n |-> n + (IF QoS(m.h.flags) # 0 THEN 2 ELSE 0) + BufLen(u.b),
          err |-> "ok"]

\* PublishMessage.Decode: [m, r, n, err]
PublishDecode(m, r) ==
    With(fixedHeaderDecode(m.h, r), LAMBDA d :
        IF d.err # "ok"
        THEN [m |-> [m EXCEPT !.h = d.h], r |-> d.r, n |-> d.n, err |-> d.err]
        ELSE With(readLPBytes(d.h.buf), LAMBDA t :
            IF t.err # "ok"
            THEN [m |-> [m EXCEPT !.h = [d.h EXCEPT !.buf = t.b],
                                  !.topic = t.s],
                  r |-> d.r, n |-> d.n + t.n, err |-> t.err]
            ELSE IF ~ValidTopic(Val(t.b, t.s))
            THEN [m |-> [m EXCEPT !.h = [d.h EXCEPT !.buf = t.b],
                                  !.topic = t.s],
                  r |-> d.r, n |-> d.n + t.n, err |-> "invalidtopic"]
            ELSE PublishDecodeRest(
                     [m EXCEPT !.h = [d.h EXCEPT !.buf = t.b], !.topic = t.s],
                     d.r, d.n + t.n,
                     IF QoS(d.h.flags) # 0 THEN readUint16(t.b)
                     ELSE [b |-> t.b, v |-> m.packetId, err |-> "ok"])))

\* PublishMessage.Encode up to the fixed header, tlen and plen being
\* len(this.topic) and len(this.payload): [h, n, err]
PublishEncodeHeader(h, tlen, plen) ==
    IF tlen = 0 THEN [h |-> h, n |-> 0, err |-> "emptytopic"]
    ELSE IF plen = 0 THEN [h |-> h, n |-> 0, err |-> "emptypayload"]
    ELSE fixedHeaderEncode(
             SetRemainingLength(h, 2 + tlen + plen
                                   + (IF QoS(h.flags) # 0 THEN 2 ELSE 0)).h)

\* PublishMessage.Encode after the topic was written as w: the packet
\* identifier when the QoS is not 0, and the payload; n is the count so far
PublishEncodeRest(m, n, b2) ==
    [m |-> [m EXCEPT !.h.buf = BufWrite(b2, Val(b2, m.payload))],
     n |-> n + (IF QoS(m.h.flags) # 0 THEN 2 ELSE 0) + SLen(m.payload),
     err |-> "ok"]

\* PublishMessage.Encode: [m, n, err]
PublishEncode(m) ==
    With(PublishEncodeHeader(m.h, SLen(m.topic), SLen(m.payload)), LAMBDA e :
        IF e.err # "ok"
        THEN [m |-> [m EXCEPT !.h = e.h], n |-> 0, err |-> e.err]
        ELSE With(writeLPBytes(e.h.buf, m.topic), LAMBDA w :
            IF w.err # "ok"
            THEN [m |-> [m EXCEPT !.h = [e.h EXCEPT !.buf = w.b]], n |-> e.n,
                  err |-> w.err]
            ELSE PublishEncodeRest([m EXCEPT !.h = e.h], e.n + w.n,
                     IF QoS(e.h.flags) # 0 THEN writeUint16(w.b, m.packetId)
                     ELSE w.b)))

\* the values the accessors of a PublishMessage return
PublishFields(m) ==
    [flags |-> m.h.flags, packetId |-> m.packetId,
     topic |-> Val(m.h.buf, m.topic), payload |-> Val(m.h.buf, m.payload)]

\* arguments of the setters
PublishTopics == { <<97>>, <<>>, <<97, 35>> }

PublishPayloads == { <<120>>, <<>> }

\* byte sources handed to PublishMessage.Decode
PublishSources ==
    { <<48, 4, 0, 1, 97, 120>>, <<50, 6, 0, 1, 97, 0, 7, 120>>,
      <<59, 7, 0, 1, 98, 1, 2, 121, 122>>, <<48, 5, 0, 2, 97, 98, 120>>,
      <<48, 3, 0, 1, 97>>, <<50, 5, 0, 1, 97, 0, 7>>,
      <<48, 4, 0, 1, 35, 120>>, <<48, 2, 0, 0>>, <<50, 4, 0, 1, 97, 7>>,
      <<48, 3, 0, 5, 97>>, <<48, 1, 0>>, <<54, 4, 0, 1, 97, 120>>,
      <<64, 2, 0, 7>>, <<48, 4, 0, 1>> }

PublishSetQoS == \E v \in {0, 1, 3} : SetterStep("SetQoS", SetQoS(msg, v))

PublishSetDup == SetterStep("SetDup", Set(SetDup(msg, TRUE)))

PublishSetRetain == SetterStep("SetRetain", Set(SetRetain(msg, TRUE)))

PublishSetTopic ==
    \E v \in PublishTopics : SetterStep("SetTopic", SetTopic(msg, v))

PublishSetPacketId ==
    \E v \in PacketIds :
        SetterStep("SetPacketId", Set([msg EXCEPT !.packetId = v]))

PublishSetPayload ==
    \E v \in PublishPayloads :
        SetterStep("SetPayload", Set([msg EXCEPT !.payload = Own(v)]))

PublishDecodeCall ==
    \E inp \in PublishSources :
        DecodeStep(inp, PublishDecode(msg, NewReader(inp)))

PublishEncodeCall == EncodeStep(PublishEncode(msg))

PublishPeerDecode ==
    PeerStep(PublishDecode(NewPublishMessage, NewReader(cur.out)))

NextPublish ==
    \/ PublishSetQoS
    \/ PublishSetDup
    \/ PublishSetRetain
    \/ PublishSetTopic
    \/ PublishSetPacketId
    \/ PublishSetPayload
    \/ PublishDecodeCall
    \/ PublishEncodeCall
    \/ PublishPeerDecode

SpecPublish == InitWith(NewPublishMessage) /\ [][NextPublish]_vars

\* topics: empty, "a/b", "a", with '#' or '*' at either end, and with the
\* bytes next to them, '+' among these
TopicNames ==
    { <<>>, <<97, 47, 98>>, <<97>>, <<35>>, <<97, 35>>, <<42, 97>>,
      <<97, 47, 42>>, <<43>>, <<34, 36, 41>> }

\* a PUBLISH packet with first byte h, topic t and what follows it
TopicPacket(h, t, rest) ==
    <<h, 2 + Len(t) + Len(rest), 0, Len(t)>> \o t \o rest

\* PUBLISH packets of QoS 0 with these topics and payload "x", and two of
\* QoS 1 with packet identifier 7
TopicSources ==
    { TopicPacket(48, t, <<120>>) : t \in TopicNames } \cup
    { TopicPacket(50, <<97, 47, 98>>, <<0, 7, 120>>),
      TopicPacket(50, <<97, 47, 42>>, <<0, 7, 120>>) }

TopicSetTopic ==
    \E v \in TopicNames :
        Step(SetTopic(msg, v).m,
             Call("SetTopic", SetTopic(msg, v).err, 0, v, 0, <<>>))

TopicDecodeCall ==
    \E inp \in TopicSources :
        DecodeStep(inp, PublishDecode(msg, NewReader(inp)))

NextPublishTopic ==
    \/ TopicSetTopic
    \/ TopicDecodeCall
    \/ PublishEncodeCall
    \/ PublishPeerDecode

SpecPublishTopic == InitWith(NewPublishMessage) /\ [][NextPublishTopic]_vars

-----------------------------------------------------------------------------
(* PublishMessage.Encode on a message whose topic and payload are given by  *)
(* their lengths alone, [h, tlen, plen]: Encode reads of them only their    *)
(* lengths until it writes them, and a payload of 256 MB is not written out *)
(* here.  The stream recorded is the fixed header.                         *)

NewPublishLengths == [h |-> SetType(ZeroHeader, PUBLISH).h, tlen |-> 0, plen |-> 0]

\* PublishMessage.Encode: the checks, the fixed header, and the one check
\* that can still fail after it, writeLPBytes' on the length of the topic
PublishEncodeLengths(m) ==
    With(PublishEncodeHeader(m.h, m.tlen, m.plen), LAMBDA e :
        IF e.err # "ok"
        THEN [m |-> [m EXCEPT !.h = e.h], n |-> 0, err |-> e.err]
        ELSE IF m.tlen > maxLPString
        THEN [m |-> [m EXCEPT !.h = e.h], n |-> e.n, err |-> "toolong"]
        ELSE [m |-> [m EXCEPT !.h = e.h],
              n |-> e.n + 2 + m.tlen + (IF QoS(m.h.flags) # 0 THEN 2 ELSE 0)
                    + m.plen,
              err |-> "ok"])

\* lengths of the topics and payloads given to SetTopic and SetPayload
TopicLengths == {1, 65535, 65536}

PayloadLengths == {1, 200, 268435450, 268435451, 268435455}

LengthsSetQoS == \E v \in {0, 1, 2} : SetterStep("SetQoS", SetQoS(msg, v))

LengthsSetTopic ==
    \E n \in TopicLengths :
        SetterStep("SetTopic", Set([msg EXCEPT !.tlen = n]))

LengthsSetPayload ==
    \E n \in PayloadLengths :
        SetterStep("SetPayload", Set([msg EXCEPT !.plen = n]))

LengthsEncodeCall == EncodeStep(PublishEncodeLengths(msg))

NextPublishLengths ==
    \/ LengthsSetQoS
    \/ LengthsSetTopic
    \/ LengthsSetPayload
    \/ LengthsEncodeCall

SpecPublishLengths == InitWith(NewPublishLengths) /\ [][NextPublishLengths]_vars

-----------------------------------------------------------------------------
(* ConnackMessage: [h, sessionPresent, returnCode] *)

NewConnackMessage ==
    [h |-> SetType(ZeroHeader, CONNACK).h, sessionPresent |-> FALSE,
     returnCode |-> 0]

\* ConnackMessage.Decode after the acknowledge flags byte: the return code,
\* read as rb; n is the count so far
ConnackDecodeCode(m, r, n, rb) ==
    IF rb.err # "ok"
    THEN [m |-> [m EXCEPT !.h.buf = rb.b], r |-> r, n |-> n, err |-> rb.err]
    ELSE IF rb.c > 5
    THEN [m |-> [m EXCEPT !.h.buf = rb.b], r |-> r, n |-> 0,
          err |-> "invalidcode"]
    ELSE [m |-> [m EXCEPT !.h.buf = rb.b, !.returnCode = rb.c], r |-> r,
          n |-> n + 1, err |-> "ok"]

\* ConnackMessage.Decode: [m, r, n, err]
ConnackDecode(m, r) ==
    With(fixedHeaderDecode(m.h, r), LAMBDA d :
        IF d.err # "ok"
        THEN [m |-> [m EXCEPT !.h = d.h], r |-> d.r, n |-> d.n, err |-> d.err]
        ELSE With(BufReadByte(d.h.buf), LAMBDA rb :
            IF rb.err # "ok"
            THEN [m |-> [m EXCEPT !.h = [d.h EXCEPT !.buf = rb.b]],
                  r |-> d.r, n |-> d.n, err |-> rb.err]
            ELSE IF rb.c \div 2 # 0
            THEN [m |-> [m EXCEPT !.h = [d.h EXCEPT !.buf = rb.b]],
                  r |-> d.r, n |-> 0, err |-> "reservedbits"]
            ELSE ConnackDecodeCode(
                     [m EXCEPT !.h = [d.h EXCEPT !.buf = rb.b],
                               !.sessionPresent = (rb.c % 2 = 1)],
                     d.r, d.n + 1, BufReadByte(rb.b))))

\* ConnackMessage.Encode: [m, n, err]
ConnackEncode(m) ==
    With(fixedHeaderEncode(SetRemainingLength(m.h, 2).h), LAMBDA e :
        IF e.err # "ok"
        THEN [m |-> [m EXCEPT !.h = e.h], n |-> 0, err |-> e.err]
        ELSE IF m.returnCode > 5
        THEN [m |-> [m EXCEPT !.h = e.h], n |-> 0, err |-> "invalidcode"]
        ELSE [m |-> [m EXCEPT !.h = [e.h EXCEPT !.buf =
                        BufWrite(e.h.buf, <<IF m.sessionPresent THEN 1 ELSE 0,
                                            m.returnCode>>)]],
              n |-> e.n + 2, err |-> "ok"])

\* return codes given to SetReturnCode
ConnackCodes == {0, 2, 5, 6}

\* byte sources handed to ConnackMessage.Decode
ConnackSources ==
    { <<32, 2, 0, 0>>, <<32, 2, 1, 5>>, <<32, 2, 64, 0>>, <<32, 2, 0, 6>>,
      <<32, 3, 0, 0, 9>>, <<32, 1, 0>>, <<32, 0>>, <<32, 2, 0>>,
      <<33, 2, 0, 0>>, <<16, 2, 0, 0>>, <<>> }

ConnackSetSessionPresent ==
    \E v \in BOOLEAN :
        SetterStep("SetSessionPresent", Set([msg EXCEPT !.sessionPresent = v]))

ConnackSetReturnCode ==
    \E v \in ConnackCodes :
        SetterStep("SetReturnCode", Set([msg EXCEPT !.returnCode = v]))

ConnackDecodeCall ==
    \E inp \in ConnackSources :
        DecodeStep(inp, ConnackDecode(msg, NewReader(inp)))

ConnackEncodeCall == EncodeStep(ConnackEncode(msg))

ConnackPeerDecode ==
    PeerStep(ConnackDecode(NewConnackMessage, NewReader(cur.out)))

NextConnack ==
    \/ ConnackSetSessionPresent
    \/ ConnackSetReturnCode
    \/ ConnackDecodeCall
    \/ ConnackEncodeCall
    \/ ConnackPeerDecode

SpecConnack == InitWith(NewConnackMessage) /\ [][NextConnack]_vars

-----------------------------------------------------------------------------
(* ConnectMessage: [h, connectFlags, version, keepAlive, protoName,        *)
(* clientId, willTopic, willMessage, username, password]; the byte strings *)
(* are slice descriptors.                                                  *)

NewConnectMessage ==
    [h |-> SetType(ZeroHeader, CONNECT).h, connectFlags |-> 0, version |-> 0,
     keepAlive |-> 0, protoName |-> Own(<<>>), clientId |-> Own(<<>>),
     willTopic |-> Own(<<>>), willMessage |-> Own(<<>>),
     username |-> Own(<<>>), password |-> Own(<<>>)]

CleanSession(m) == Bit(m.connectFlags, 1) = 1

WillFlag(m) == Bit(m.connectFlags, 2) = 1

WillQos(m) == (m.connectFlags \div 8) % 4

WillRetain(m) == Bit(m.connectFlags, 5) = 1

PasswordFlag(m) == Bit(m.connectFlags, 6) = 1

UsernameFlag(m) == Bit(m.connectFlags, 7) = 1

\* the setters of one connect flag: the message with bit k set as v says
SetFlagBit(m, k, v) ==
    [m EXCEPT !.connectFlags = IF v THEN SetBit(@, k) ELSE ClearBit(@, k)]

SetCleanSession(m, v) == SetFlagBit(m, 1, v)

SetWillFlag(m, v) == SetFlagBit(m, 2, v)

SetWillRetain(m, v) == SetFlagBit(m, 5, v)

SetPasswordFlag(m, v) == SetFlagBit(m, 6, v)

SetUsernameFlag(m, v) == SetFlagBit(m, 7, v)

\* SetVersion(v): [m, err]
SetVersion(m, v) ==
    IF ~ValidVersion(v) THEN [m |-> m, err |-> "invalid"]
    ELSE [m |-> [m EXCEPT !.version = v], err |-> "ok"]

\* SetWillQos(qos): [m, err]
SetWillQos(m, qos) ==
    IF qos # QosAtMostOnce /\ qos # QosAtLeastOnce /\ qos # QosExactlyOnce
    THEN [m |-> m, err |-> "invalid"]
    ELSE [m |-> [m EXCEPT !.connectFlags =
                    @ - ((@ \div 8) % 4) * 8 + qos * 8],
          err |-> "ok"]

SetKeepAlive(m, v) == [m EXCEPT !.keepAlive = v]

\* ClientId(): the client identifier
ClientId(m) == Val(m.h.buf, m.clientId)

\* SetClientId(v): [m, err]
SetClientId(m, v) ==
    IF Len(v) > 0 /\ ~ValidClientId(v)
    THEN [m |-> m, err |-> "identifierrejected"]
    ELSE [m |-> [m EXCEPT !.clientId = Own(v)], err |-> "ok"]

\* a SetWillTopic that clears the will flag for every empty topic
SetWillTopicClearing(m, v) ==
    SetWillFlag([m EXCEPT !.willTopic = Own(v)], Len(v) > 0)

SetWillTopic(m, v) ==
    With([m EXCEPT !.willTopic = Own(v)], LAMBDA m1 :
        IF Len(v) > 0 THEN SetWillFlag(m1, TRUE)
        ELSE IF SLen(m1.willMessage) = 0 THEN SetWillFlag(m1, FALSE)
        ELSE m1)

SetWillMessage(m, v) ==
    With([m EXCEPT !.willMessage = Own(v)], LAMBDA m1 :
        IF Len(v) > 0 THEN SetWillFlag(m1, TRUE)
        ELSE IF SLen(m1.willTopic) = 0 THEN SetWillFlag(m1, FALSE)
        ELSE m1)

SetUsername(m, v) ==
    SetUsernameFlag([m EXCEPT !.username = Own(v)], Len(v) > 0)

SetPassword(m, v) ==
    SetPasswordFlag([m EXCEPT !.password = Own(v)], Len(v) > 0)

\* one `if n, err = writeLPBytes(this.buf, s); err != nil { return total + n,
\* err }; total += n` of encodeMessage, w being [b, n, err] so far
WriteField(w, s) ==
    IF w.err # "ok" THEN w
    ELSE With(writeLPBytes(w.b, s), LAMBDA x :
             [b |-> x.b, n |-> w.n + x.n, err |-> x.err])

\* encodeMessage from the client identifier on
ConnectEncodeFields(m, w) ==
    With(WriteField(w, m.clientId), LAMBDA w3 :
    With(IF WillFlag(m)
         THEN WriteField(WriteField(w3, m.willTopic), m.willMessage)
         ELSE w3, LAMBDA w4 :
    With(IF UsernameFlag(m) /\ SLen(m.username) > 0
         THEN WriteField(w4, m.username) ELSE w4, LAMBDA w5 :
         IF PasswordFlag(m) /\ SLen(m.password) > 0
         THEN WriteField(w5, m.password) ELSE w5)))

\* encodeMessage(): [b, n, err]
encodeMessage(m) ==
    IF ~ValidVersion(m.version)
    THEN [b |-> m.h.buf, n |-> 0, err |-> "unsupported"]
    ELSE With(writeLPBytes(m.h.buf, Own(SupportedVersions(m.version))),
              LAMBDA w1 :
             IF w1.err # "ok" THEN [b |-> w1.b, n |-> 0, err |-> w1.err]
             ELSE ConnectEncodeFields(m,
                      [b |-> writeUint16(
                                 BufWrite(w1.b, <<m.version, m.connectFlags>>),
                                 m.keepAlive),
                       n |-> w1.n + 4, err |-> "ok"]))

\* a remaining length that counts the two bytes of the fixed header as well
ConnectLengthWithHeader(m) ==
    2 + 2 + Len(SupportedVersions(m.version)) + 1 + 1 + 2
    + 2 + SLen(m.clientId)
    + (IF WillFlag(m) THEN 2 + SLen(m.willTopic) + 2 + SLen(m.willMessage)
       ELSE 0)
    + (IF UsernameFlag(m) /\ SLen(m.username) > 0
       THEN 2 + SLen(m.username) ELSE 0)
    + (IF PasswordFlag(m) /\ SLen(m.password) > 0
       THEN 2 + SLen(m.password) ELSE 0)

\* the remaining length ConnectMessage.Encode computes
ConnectLength(m) ==
    2 + Len(SupportedVersions(m.version)) + 1 + 1 + 2
    + 2 + SLen(m.clientId)
    + (IF WillFlag(m) THEN 2 + SLen(m.willTopic) + 2 + SLen(m.willMessage)
       ELSE 0)
    + (IF UsernameFlag(m) /\ SLen(m.username) > 0
       THEN 2 + SLen(m.username) ELSE 0)
    + (IF PasswordFlag(m) /\ SLen(m.password) > 0
       THEN 2 + SLen(m.password) ELSE 0)

\* ConnectMessage.Encode from the fixed header on, s being the result of
\* SetRemainingLength
ConnectEncodeRest(m, s) ==
    IF s.err # "ok" THEN [m |-> m, n |-> 0, err |-> s.err]
    ELSE With(fixedHeaderEncode(s.h), LAMBDA e :
        IF e.err # "ok"
        THEN [m |-> [m EXCEPT !.h = e.h], n |-> e.n, err |-> e.err]
        ELSE With(encodeMessage([m EXCEPT !.h = e.h]), LAMBDA w :
                 [m |-> [m EXCEPT !.h = [e.h EXCEPT !.buf = w.b]],
                  n |-> e.n + w.n, err |-> w.err]))

\* ConnectMessage.Encode: [m, n, err]
ConnectEncode(m) ==
    IF m.h.mtype # CONNECT THEN [m |-> m, n |-> 0, err |-> "invalidtype"]
    ELSE IF ~ValidVersion(m.version)
    THEN [m |-> m, n |-> 0, err |-> "unsupported"]
    ELSE ConnectEncodeRest(m, SetRemainingLength(m.h, ConnectLength(m)))

\* decodeMessage is a sequence of steps, each returning at its first error;
\* a step takes and gives [m, n, err], the message, the count so far and the
\* error, and does nothing once there is an error.
Stop(m, n, err) == [m |-> m, n |-> n, err |-> err]

\* one `if this.f, n, err = readLPBytes(this.buf); err != nil { return total
\* + n, err }; total += n`
ReadField(ds, f) ==
    IF ds.err # "ok" THEN ds
    ELSE With(readLPBytes(ds.m.h.buf), LAMBDA t :
             Stop([ds.m EXCEPT !.h.buf = t.b, ![f] = t.s], ds.n + t.n, t.err))

\* the protocol version, read as rb after the protocol name
DecodeVersion(ds, rb) ==
    With([ds.m EXCEPT !.h.buf = rb.b, !.version = rb.c], LAMBDA m1 :
        IF rb.err # "ok" THEN Stop(m1, ds.n, rb.err)
        ELSE IF ~ValidVersion(rb.c) THEN Stop(m1, ds.n + 1, "unacceptable")
        ELSE IF SupportedVersions(rb.c) # Val(m1.h.buf, m1.protoName)
        THEN Stop(m1, ds.n + 1, "unacceptable")
        ELSE Stop(m1, ds.n + 1, "ok"))

\* checks on the connect flags that let will retain pass without the will flag
DecodeFlagsRetainFree(ds, rb) ==
    With([ds.m EXCEPT !.h.buf = rb.b, !.connectFlags = rb.c], LAMBDA m1 :
        IF rb.err # "ok" THEN Stop(m1, ds.n, rb.err)
        ELSE IF rb.c % 2 # 0 THEN Stop(m1, ds.n + 1, "reservedbit")
        ELSE IF WillQos(m1) > QosExactlyOnce
        THEN Stop(m1, ds.n + 1, "invalidqos")
        ELSE IF ~WillFlag(m1) /\ WillQos(m1) # QosAtMostOnce
        THEN Stop(m1, ds.n + 1, "willflags")
        ELSE IF UsernameFlag(m1) /\ ~PasswordFlag(m1)
        THEN Stop(m1, ds.n + 1, "usernameflag")
        ELSE Stop(m1, ds.n + 1, "ok"))

\* the connect flags, read as rb, and the checks on them
DecodeFlags(ds, rb) ==
    With([ds.m EXCEPT !.h.buf = rb.b, !.connectFlags = rb.c], LAMBDA m1 :
        IF rb.err # "ok" THEN Stop(m1, ds.n, rb.err)
        ELSE IF rb.c % 2 # 0 THEN Stop(m1, ds.n + 1, "reservedbit")
        ELSE IF WillQos(m1) > QosExactlyOnce
        THEN Stop(m1, ds.n + 1, "invalidqos")
        ELSE IF ~WillFlag(m1) /\ (WillRetain(m1) \/ WillQos(m1) # QosAtMostOnce)
        THEN Stop(m1, ds.n + 1, "willflags")
        ELSE IF UsernameFlag(m1) /\ ~PasswordFlag(m1)
        THEN Stop(m1, ds.n + 1, "usernameflag")
        ELSE Stop(m1, ds.n + 1, "ok"))

\* the keep alive timer, read as u
DecodeKeepAlive(ds, u) ==
    With([ds.m EXCEPT !.h.buf = u.b, !.keepAlive = u.v], LAMBDA m1 :
        IF u.err # "ok" THEN Stop(m1, ds.n, u.err)
        ELSE Stop(m1, ds.n + 2, "ok"))

\* the checks on the client identifier just read
CheckClientId(ds) ==
    IF ds.err # "ok" THEN ds
    ELSE IF SLen(ds.m.clientId) = 0 /\ ~CleanSession(ds.m)
    THEN Stop(ds.m, ds.n, "identifierrejected")
    ELSE IF /\ SLen(ds.m.clientId) > 0
            /\ ~ValidClientId(Val(ds.m.h.buf, ds.m.clientId))
    THEN Stop(ds.m, ds.n, "identifierrejected")
    ELSE ds

DecodeWill(ds) ==
    IF ds.err = "ok" /\ WillFlag(ds.m)
    THEN ReadField(ReadField(ds, "willTopic"), "willMessage")
    ELSE ds

DecodeUsername(ds) ==
    IF ds.err = "ok" /\ UsernameFlag(ds.m) /\ BufLen(ds.m.h.buf) > 0
    THEN ReadField(ds, "username")
    ELSE ds

DecodePassword(ds) ==
    IF ds.err = "ok" /\ PasswordFlag(ds.m) /\ BufLen(ds.m.h.buf) > 0
    THEN ReadField(ds, "password")
    ELSE ds

\* the check for bytes left at the end
CheckEnd(ds) ==
    IF ds.err = "ok" /\ BufLen(ds.m.h.buf) > 0
    THEN Stop(ds.m, ds.n, "invalidsize")
    ELSE ds

\* a step that reads with rd and goes on with F, skipped once there is an
\* error
Then(ds, rd(_), F(_, _)) ==
    IF ds.err # "ok" THEN ds ELSE F(ds, rd(ds.m.h.buf))

\* decodeMessage(): [m, n, err]
decodeMessage(m) ==
    With(ReadField(Stop(m, 0, "ok"), "protoName"), LAMBDA d1 :
    With(Then(d1, BufReadByte, DecodeVersion), LAMBDA d2 :
    With(Then(d2, BufReadByte, DecodeFlags), LAMBDA d3 :
    With(Then(d3, readUint16, DecodeKeepAlive), LAMBDA d4 :
    With(CheckClientId(ReadField(d4, "clientId")), LAMBDA d5 :
    With(DecodeWill(d5), LAMBDA d6 :
    With(DecodeUsername(d6), LAMBDA d7 :
         CheckEnd(DecodePassword(d7)))))))))

\* ConnectMessage.Decode: [m, r, n, err]
ConnectDecode(m, r) ==
    With(fixedHeaderDecode(m.h, r), LAMBDA d :
        IF d.err # "ok"
        THEN [m |-> [m EXCEPT !.h = d.h], r |-> d.r, n |-> d.n, err |-> d.err]
        ELSE With(decodeMessage([m EXCEPT !.h = d.h]), LAMBDA ds :
                 [m |-> ds.m, r |-> d.r, n |-> d.n + ds.n, err |-> ds.err]))

\* what the accessors of a ConnectMessage return
ConnectFields(m) ==
    [flags |-> m.h.flags, connectFlags |-> m.connectFlags,
     version |-> m.version, keepAlive |-> m.keepAlive,
     clientId |-> Val(m.h.buf, m.clientId),
     willTopic |-> Val(m.h.buf, m.willTopic),
     willMessage |-> Val(m.h.buf, m.willMessage),
     username |-> Val(m.h.buf, m.username),
     password |-> Val(m.h.buf, m.password)]

\* a ConnectMessage filled by its setters: SetVersion, SetCleanSession,
\* SetKeepAlive, SetClientId, SetWillTopic and SetWillMessage, SetWillQos,
\* SetWillRetain, SetUsername, SetPassword
Built(v, cs, ka, cid, wt, wq, wr, un, pw) ==
    With(SetClientId(SetKeepAlive(SetCleanSession(
             SetVersion(NewConnectMessage, v).m, cs), ka), cid).m, LAMBDA m1 :
    With(SetWillQos(SetWillMessage(SetWillTopic(m1, wt), wt), wq).m,
         LAMBDA m2 :
             SetPassword(SetUsername(SetWillRetain(m2, wr), un), pw)))

\* the arguments given to the setters
ConnectVersions == {4, 5}

ConnectClientIds == {<<97, 98, 99>>, <<>>}

ConnectWills == {<<>>, <<116>>}

ConnectUsernames == {<<>>, <<117>>}

ConnectPasswords == {<<>>, <<112>>}

\* the bytes of a CONNECT packet of version 4 with connect flags f, keep
\* alive 10, client identifier cid and the bytes rest after it
ConnectPacket(f, cid, rest) ==
    <<16, 12 + Len(cid) + Len(rest), 0, 4, 77, 81, 84, 84, 4, f, 0, 10,
      0, Len(cid)>> \o cid \o rest

\* well-formed packets with the username flag set and the password flag not
UsernameOnlySources == { ConnectPacket(130, <<97>>, <<0, 1, 117>>) }

\* packets with the password flag set and the username flag not
PasswordOnlySources == { ConnectPacket(66, <<97>>, <<0, 1, 112>>) }

\* byte sources handed to ConnectMessage.Decode
ConnectSources ==
    UsernameOnlySources \cup PasswordOnlySources \cup
    { ConnectPacket(2, <<97, 98, 99>>, <<>>),
      ConnectPacket(194, <<97>>, <<0, 1, 117, 0, 1, 112>>),
      ConnectPacket(194, <<97>>, <<>>),
      ConnectPacket(14, <<97>>, <<0, 1, 116, 0, 1, 109>>),
      ConnectPacket(10, <<97>>, <<>>),
      ConnectPacket(3, <<97>>, <<>>),
      ConnectPacket(2, <<>>, <<>>),
      ConnectPacket(0, <<>>, <<>>),
      ConnectPacket(2, <<45>>, <<>>),
      ConnectPacket(2, <<97>>, <<9>>),
      <<16, 15, 0, 6, 77, 81, 73, 115, 100, 112, 3, 2, 0, 10, 0, 1, 97>>,
      <<16, 13, 0, 4, 77, 81, 84, 84, 3, 2, 0, 10, 0, 1, 97>>,
      <<16, 13, 0, 4, 77, 81, 84, 84, 4, 2, 0, 10, 0>>,
      <<16, 7, 0, 4, 77, 81, 84, 84, 4, 2, 0>>,
      <<16, 5, 0, 4, 77, 81, 84, 84>>,
      <<32, 2, 0, 0>> }

InitConnect ==
    \E v \in ConnectVersions, cs \in BOOLEAN, cid \in ConnectClientIds,
       wt \in ConnectWills, un \in ConnectUsernames, pw \in ConnectPasswords :
        InitWith(Built(v, cs, 10, cid, wt, IF wt = <<>> THEN 0 ELSE 1,
                       wt # <<>>, un, pw))

ConnectDecodeCall ==
    \E inp \in ConnectSources :
        DecodeStep(inp, ConnectDecode(msg, NewReader(inp)))

ConnectEncodeCall == EncodeStep(ConnectEncode(msg))

ConnectPeerDecode ==
    PeerStep(ConnectDecode(NewConnectMessage, NewReader(cur.out)))

NextConnect ==
    \/ ConnectDecodeCall
    \/ ConnectEncodeCall
    \/ ConnectPeerDecode

SpecConnect == InitConnect /\ [][NextConnect]_vars

\* client identifiers: empty, alphanumeric, and with a byte next to the
\* ranges 0-9, A-Z, a-z or a line feed
ClientIds ==
    { <<>>, <<97, 98, 99>>, <<65, 48, 122>>, <<57, 90>>, <<45>>, <<97, 45>>,
      <<47>>, <<58>>, <<64>>, <<91>>, <<95>>, <<96>>, <<123>>, <<97, 10>> }

\* CONNECT packets with clean session 0 or 1 and these client identifiers
ClientIdSources ==
    { ConnectPacket(f, cid, <<>>) : f \in {0, 2}, cid \in ClientIds }

ConnectSetClientId ==
    \E v \in ClientIds :
        Step(SetClientId(msg, v).m,
             Call("SetClientId", SetClientId(msg, v).err, 0, v, 0, <<>>))

ConnectIdDecodeCall ==
    \E inp \in ClientIdSources :
        DecodeStep(inp, ConnectDecode(msg, NewReader(inp)))

InitConnectId ==
    \E cs \in BOOLEAN : InitWith(SetCleanSession(NewConnectMessage, cs))

NextConnectId ==
    \/ ConnectSetClientId
    \/ ConnectIdDecodeCall
    \/ ConnectEncodeCall
    \/ ConnectPeerDecode

SpecConnectId == InitConnectId /\ [][NextConnectId]_vars

\* the will topic "t" and the will message "mn" as they follow the client
\* identifier
WillBytes == <<0, 1, 116, 0, 2, 109, 110>>

\* CONNECT packets with every value of the connect flags bits 0..5, the will
\* fields present when the will flag is set; and packets with the will flag
\* set and the will fields missing, cut short, or followed by username and
\* password
ConnectFlagsSources ==
    { ConnectPacket(f, <<97>>, IF Bit(f, 2) = 1 THEN WillBytes ELSE <<>>) :
          f \in 0..63 } \cup
    { ConnectPacket(6, <<97>>, <<>>),
      ConnectPacket(6, <<97>>, <<0, 1, 116>>),
      ConnectPacket(246, <<97>>, WillBytes \o <<0, 1, 117, 0, 1, 112>>) }

ConnectFlagsDecodeCall ==
    \E inp \in ConnectFlagsSources :
        DecodeStep(inp, ConnectDecode(msg, NewReader(inp)))

NextConnectFlags ==
    \/ ConnectFlagsDecodeCall
    \/ ConnectEncodeCall
    \/ ConnectPeerDecode

SpecConnectFlags == InitWith(NewConnectMessage) /\ [][NextConnectFlags]_vars

\* byte strings given to SetWillTopic, SetWillMessage, SetUsername and
\* SetPassword
SetterStrings == { <<>>, <<116>>, <<117, 118>> }

ConnectSetWillTopic ==
    \E v \in SetterStrings :
        SetterStep("SetWillTopic", Set(SetWillTopic(msg, v)))

ConnectSetWillMessage ==
    \E v \in SetterStrings :
        SetterStep("SetWillMessage", Set(SetWillMessage(msg, v)))

ConnectSetUsername ==
    \E v \in SetterStrings :
        SetterStep("SetUsername", Set(SetUsername(msg, v)))

ConnectSetPassword ==
    \E v \in SetterStrings :
        SetterStep("SetPassword", Set(SetPassword(msg, v)))

\* a new ConnectMessage, after SetCleanSession, SetWillQos and SetWillRetain
\* or not, and after a first SetWillTopic and SetWillMessage
InitConnectSetters ==
    \E cs \in BOOLEAN, wq \in {0, 2}, wr \in BOOLEAN,
       wt \in {<<>>, <<116>>}, wm \in {<<>>, <<109>>} :
        InitWith(SetWillMessage(SetWillTopic(
            SetWillRetain(SetWillQos(SetCleanSession(NewConnectMessage, cs),
                                     wq).m, wr), wt), wm))

NextConnectSetters ==
    \/ ConnectSetWillTopic
    \/ ConnectSetWillMessage
    \/ ConnectSetUsername
    \/ ConnectSetPassword

SpecConnectSetters == InitConnectSetters /\ [][NextConnectSetters]_vars

-----------------------------------------------------------------------------
(* SubackMessage: [h, packetId, returnCodes]; returnCodes is a slice         *)
(* descriptor, a slice of the message's buffer after Decode.               *)

NewSubackMessage ==
    [h |-> SetType(ZeroHeader, SUBACK).h, packetId |-> 0,
     returnCodes |-> Own(<<>>)]

\* ReturnCodes(): the list of return codes
ReturnCodes(m) == Val(m.h.buf, m.returnCodes)

\* a check of the return code that takes 3 for a QoS
InvalidCodeAboveThree(c) == c > 3 /\ c # QosFailure

\* c != QosAtMostOnce && c != QosAtLeastOnce && c != QosExactlyOnce &&
\* c != QosFailure
InvalidCode(c) ==
    c # QosAtMostOnce /\ c # QosAtLeastOnce /\ c # QosExactlyOnce /\ c # QosFailure

\* this.returnCodes = append(this.returnCodes, c): a slice of the buffer is
\* extended in place, the buffer's array having room after it (ReadFrom
\* keeps bytes.MinRead bytes free)
AppendCode(m, c) ==
    IF m.returnCodes.a = "own"
    THEN [m EXCEPT !.returnCodes = Own(Append(m.returnCodes.v, c))]
    ELSE [m EXCEPT
             !.h.buf.st = Overwrite(@, m.returnCodes.off + m.returnCodes.len,
                                    <<c>>),
             !.returnCodes = Alias(m.returnCodes.off, m.returnCodes.len + 1)]

\* AddReturnCodes(ret): [m, err]
RECURSIVE AddReturnCodes(_, _)
AddReturnCodes(m, ret) ==
    IF ret = <<>> THEN [m |-> m, err |-> "ok"]
    ELSE IF InvalidCode(Head(ret)) THEN [m |-> m, err |-> "invalidcode"]
    ELSE AddReturnCodes(AppendCode(m, Head(ret)), Tail(ret))

\* AddReturnCode(ret)
AddReturnCode(m, c) == AddReturnCodes(m, <<c>>)

\* SubackMessage.Decode after the packet identifier, read as u: the rest of
\* the buffer becomes the return codes, which are then checked; n is the
\* count so far
SubackDecodeCodes(m, r, n, u) ==
    IF u.err # "ok"
    THEN [m |-> [m EXCEPT !.h.buf = u.b, !.packetId = u.v], r |-> r, n |-> 0,
          err |-> u.err]
    ELSE With([m EXCEPT !.packetId = u.v,
                        !.returnCodes = Alias(u.b.off, BufLen(u.b)),
                        !.h.buf = BufNext(u.b, BufLen(u.b))], LAMBDA m1 :
             [m |-> m1, r |-> r, n |-> n + 2 + BufLen(u.b),
              err |-> IF \E i \in 1..Len(ReturnCodes(m1)) :
                             InvalidCode(ReturnCodes(m1)[i])
                      THEN "invalidcode" ELSE "ok"])

\* SubackMessage.Decode: [m, r, n, err]
SubackDecode(m, r) ==
    With(fixedHeaderDecode(m.h, r), LAMBDA d :
        IF d.err # "ok"
        THEN [m |-> [m EXCEPT !.h = d.h], r |-> d.r, n |-> d.n, err |-> d.err]
        ELSE SubackDecodeCodes([m EXCEPT !.h = d.h], d.r, d.n,
                               readUint16(d.h.buf)))

\* SubackMessage.Encode after the header, m being the message with the
\* packet identifier written and n the count so far
SubackEncodeCodes(m, n) ==
    [m |-> [m EXCEPT !.h.buf = BufWrite(m.h.buf, ReturnCodes(m))],
     n |-> n + SLen(m.returnCodes), err |-> "ok"]

\* SubackMessage.Encode: [m, n, err]
SubackEncode(m) ==
    IF \E i \in 1..Len(ReturnCodes(m)) : InvalidCode(ReturnCodes(m)[i])
    THEN [m |-> m, n |-> 0, err |-> "invalidcode"]
    ELSE With(fixedHeaderEncode(
                  SetRemainingLength(m.h, 2 + SLen(m.returnCodes)).h),
              LAMBDA e :
        IF e.err # "ok"
        THEN [m |-> [m EXCEPT !.h = e.h], n |-> 0, err |-> e.err]
        ELSE SubackEncodeCodes(
                 [m EXCEPT !.h = [e.h EXCEPT
                               !.buf = writeUint16(e.h.buf, m.packetId)]],
                 e.n + 2))

\* what the accessors of a SubackMessage return
SubackFields(m) ==
    [flags |-> m.h.flags, packetId |-> m.packetId,
     returnCodes |-> ReturnCodes(m)]

\* lists given to AddReturnCodes
SubackCodeLists ==
    { <<>>, <<0>>, <<2, 128>>, <<3>>, <<1, 3>>, <<1, 127, 2>>, <<129, 0>> }

\* codes given to AddReturnCode: 1 and 0x90 are those of the tests
SubackCodes == { 1, 128, 144, 255 }

\* byte sources handed to SubackMessage.Decode: well-formed packets with
\* valid codes, with an invalid code, with no code, with a two-byte
\* remaining length; a source that ends early; wrong first bytes
SubackSources ==
    { <<144, 6, 0, 7, 0, 1, 2, 128>>, <<144, 6, 0, 7, 0, 1, 2, 129>>,
      <<144, 3, 1, 2, 1>>, <<144, 3, 0, 7, 3>>, <<144, 2, 0, 7>>,
      <<144, 131, 0, 0, 7, 2>>, <<144, 4, 0, 7, 4>>, <<144, 1, 0>>,
      <<145, 3, 0, 7, 0>>, <<160, 2, 0, 7>> }

SubackSetPacketId ==
    SetterStep("SetPacketId", Set([msg EXCEPT !.packetId = 100]))

SubackAddReturnCodes ==
    \E ret \in SubackCodeLists :
        Step(AddReturnCodes(msg, ret).m,
             Call("AddReturnCodes", AddReturnCodes(msg, ret).err, 0, ret, 0,
                  <<>>))

SubackAddReturnCode ==
    \E c \in SubackCodes :
        Step(AddReturnCode(msg, c).m,
             Call("AddReturnCode", AddReturnCode(msg, c).err, 0, <<c>>, 0,
                  <<>>))

SubackDecodeCall ==
    \E inp \in SubackSources :
        DecodeStep(inp, SubackDecode(msg, NewReader(inp)))

SubackEncodeCall == EncodeStep(SubackEncode(msg))

SubackPeerDecode ==
    PeerStep(SubackDecode(NewSubackMessage, NewReader(cur.out)))

NextSuback ==
    \/ SubackSetPacketId
    \/ SubackAddReturnCodes
    \/ SubackAddReturnCode
    \/ SubackDecodeCall
    \/ SubackEncodeCall
    \/ SubackPeerDecode

SpecSuback == InitWith(NewSubackMessage) /\ [][NextSuback]_vars

-----------------------------------------------------------------------------
(* SubscribeMessage: [h, packetId, topics, qos]; topics is a sequence of    *)
(* slice descriptors, qos the sequence of the bytes requested.             *)

NewSubscribeMessage ==
    [h |-> SetType(ZeroHeader, SUBSCRIBE).h, packetId |-> 0, topics |-> <<>>,
     qos |-> <<>>]

\* the index the loop `for i, t = range this.topics` of AddTopic and
\* RemoveTopic stops at with found set, 0 when it does not find the topic
TopicIndex(m, topic) ==
    IF \E i \in 1..Len(m.topics) : Val(m.h.buf, m.topics[i]) = topic
    THEN CHOOSE i \in 1..Len(m.topics) :
             /\ Val(m.h.buf, m.topics[i]) = topic
             /\ \A j \in 1..(i - 1) : Val(m.h.buf, m.topics[j]) # topic
    ELSE 0

\* s without its i-th element: append(s[:i], s[i+1:]...)
RemoveAt(s, i) == SubSeq(s, 1, i - 1) \o SubSeq(s, i + 1, Len(s))

\* SubscribeMessage.AddTopic(topic, qos): [m, err].  this.qos[i] panics when
\* the message has fewer QoS bytes than topics, which a failed Decode leaves.
AddTopic(m, topic, qos) ==
    IF ~ValidQos(qos) THEN [m |-> m, err |-> "invalidqos"]
    ELSE With(TopicIndex(m, topic), LAMBDA i :
        IF i > Len(m.qos) THEN [m |-> m, err |-> "panic"]
        ELSE IF i # 0
        THEN [m |-> [m EXCEPT !.qos[i] = qos], err |-> "ok"]
        ELSE [m |-> [m EXCEPT !.topics = Append(@, Own(topic)),
                              !.qos = Append(@, qos)],
              err |-> "ok"])

\* SubscribeMessage.RemoveTopic(topic): [m, err].  this.qos[i+1:] panics,
\* the topic removed, when the message has fewer QoS bytes than topics.
RemoveTopic(m, topic) ==
    With(TopicIndex(m, topic), LAMBDA i :
        IF i > Len(m.qos)
        THEN [m |-> [m EXCEPT !.topics = RemoveAt(@, i)], err |-> "panic"]
        ELSE IF i # 0
        THEN [m |-> [m EXCEPT !.topics = RemoveAt(@, i),
                              !.qos = RemoveAt(@, i)],
              err |-> "ok"]
        ELSE [m |-> m, err |-> "ok"])

\* the loop `for this.buf.Len() > 0` of SubscribeMessage.Decode and what
\* follows it, n being the count so far: [m, n, err]
RECURSIVE SubscribeDecodeLoop(_, _)
RECURSIVE SubscribeDecodeQos(_, _, _)
SubscribeDecodeLoop(m, n) ==
    IF BufLen(m.h.buf) = 0
    THEN IF Len(m.topics) = 0 THEN Stop(m, 0, "emptytopics")
         ELSE Stop(m, n, "ok")
    ELSE With(readLPBytes(m.h.buf), LAMBDA t :
        IF t.err # "ok" THEN Stop([m EXCEPT !.h.buf = t.b], n + t.n, t.err)
        ELSE SubscribeDecodeQos(
                 [m EXCEPT !.h.buf = t.b, !.topics = Append(@, t.s)],
                 n + t.n, BufReadByte(t.b)))

\* the requested QoS of a topic, read as rb, and the rest of the loop
SubscribeDecodeQos(m, n, rb) ==
    IF rb.err # "ok" THEN Stop([m EXCEPT !.h.buf = rb.b], n, rb.err)
    ELSE SubscribeDecodeLoop(
             [m EXCEPT !.h.buf = rb.b, !.qos = Append(@, rb.c)], n + 1)

\* SubscribeMessage.Decode after the fixed header, the packet identifier
\* read as u
SubscribeDecodeRest(m, n, u) ==
    IF u.err # "ok"
    THEN Stop([m EXCEPT !.h.buf = u.b, !.packetId = u.v], 0, u.err)
    ELSE SubscribeDecodeLoop([m EXCEPT !.h.buf = u.b, !.packetId = u.v],
                             n + 2)

\* SubscribeMessage.Decode: [m, r, n, err]
SubscribeDecode(m, r) ==
    With(fixedHeaderDecode(m.h, r), LAMBDA d :
        IF d.err # "ok"
        THEN [m |-> [m EXCEPT !.h = d.h], r |-> d.r, n |-> d.n, err |-> d.err]
        ELSE With(SubscribeDecodeRest([m EXCEPT !.h = d.h], d.n,
                                      readUint16(d.h.buf)), LAMBDA ds :
                 [m |-> ds.m, r |-> d.r, n |-> ds.n, err |-> ds.err]))

\* the sum `total += 2 + len(t) + 1` over the topics
RECURSIVE TopicsLength(_)
TopicsLength(topics) ==
    IF topics = <<>> THEN 0
    ELSE 2 + SLen(Head(topics)) + 1 + TopicsLength(Tail(topics))

\* the loop `for i, t := range this.topics` of SubscribeMessage.Encode from
\* its i-th iteration on: [b, n, err].  this.qos[i] panics when the message
\* has fewer QoS bytes than topics.
RECURSIVE SubscribeEncodeLoop(_, _, _, _)
SubscribeEncodeLoop(m, b, n, i) ==
    IF i > Len(m.topics) THEN [b |-> b, n |-> n, err |-> "ok"]
    ELSE With(writeLPBytes(b, m.topics[i]), LAMBDA x :
        IF x.err # "ok" THEN [b |-> x.b, n |-> n, err |-> x.err]
        ELSE IF i > Len(m.qos) THEN [b |-> x.b, n |-> n + x.n, err |-> "panic"]
        ELSE SubscribeEncodeLoop(m, BufWrite(x.b, <<m.qos[i]>>),
                                 n + x.n + 1, i + 1))

\* SubscribeMessage.Encode: [m, n, err]; the error of SetRemainingLength is
\* dropped
SubscribeEncode(m) ==
    With(fixedHeaderEncode(
             SetRemainingLength(m.h, 2 + TopicsLength(m.topics)).h),
         LAMBDA e :
        IF e.err # "ok"
        THEN [m |-> [m EXCEPT !.h = e.h], n |-> e.n, err |-> e.err]
        ELSE With(SubscribeEncodeLoop(m, writeUint16(e.h.buf, m.packetId),
                                      e.n + 2, 1), LAMBDA w :
                 [m |-> [m EXCEPT !.h = [e.h EXCEPT !.buf = w.b]],
                  n |-> w.n, err |-> w.err]))

\* what the accessors of a SubscribeMessage return
SubscribeFields(m) ==
    [packetId |-> m.packetId,
     topics |-> [i \in 1..Len(m.topics) |-> Val(m.h.buf, m.topics[i])],
     qos |-> m.qos]

\* topics given to AddTopic and RemoveTopic
SubscribeTopics == {<<97>>, <<98>>}

\* byte sources handed to SubscribeMessage.Decode
SubscribeSources ==
    { <<130, 6, 0, 7, 0, 1, 97, 1>>,
      <<130, 6, 0, 7, 0, 1, 98, 0>>,
      <<130, 10, 0, 7, 0, 1, 97, 0, 0, 1, 97, 1>>,
      <<130, 6, 0, 7, 0, 1, 97, 3>>,
      <<130, 2, 0, 7>>,
      <<130, 5, 0, 7, 0, 1, 97>>,
      <<130, 4, 0, 7, 0, 1>>,
      <<130, 1, 0>>,
      <<130, 6, 0, 7, 0, 1>>,
      <<128, 6, 0, 7, 0, 1, 97, 1>> }

SubscribeSetPacketId ==
    \E v \in PacketIds : SetterStep("SetPacketId", Set([msg EXCEPT !.packetId = v]))

SubscribeAddTopic ==
    \E t \in SubscribeTopics, q \in {0, 2, 3} :
        SetterStep("AddTopic", AddTopic(msg, t, q))

SubscribeRemoveTopic ==
    \E t \in SubscribeTopics :
        SetterStep("RemoveTopic", RemoveTopic(msg, t))

SubscribeDecodeCall ==
    \E inp \in SubscribeSources :
        DecodeStep(inp, SubscribeDecode(msg, NewReader(inp)))

SubscribeEncodeCall == EncodeStep(SubscribeEncode(msg))

SubscribePeerDecode ==
    PeerStep(SubscribeDecode(NewSubscribeMessage, NewReader(cur.out)))

NextSubscribe ==
    \/ SubscribeSetPacketId
    \/ SubscribeAddTopic
    \/ SubscribeRemoveTopic
    \/ SubscribeDecodeCall
    \/ SubscribeEncodeCall
    \/ SubscribePeerDecode

SpecSubscribe == InitWith(NewSubscribeMessage) /\ [][NextSubscribe]_vars

-----------------------------------------------------------------------------
(* A bare fixedHeader, [h], of each message type: Decode of a source whose  *)
(* first byte is any byte, and of sources that start with the byte the     *)
(* header expects.                                                         *)

\* what follows the first byte in the sources
HeaderRests ==
    { <<>>, <<0>>, <<2, 0>>, <<2, 0, 7>>, <<1>>, <<128>>, <<130, 0, 0, 7>>,
      <<255, 255, 255, 127>>, <<255, 255, 255, 255, 1>>, <<128, 128, 128>> }

\* the first byte a header of type mtype takes: the type and, but for
\* PUBLISH, its default flags
ExpectedByte(h) == h.mtype * 16 + DefaultFlags(h.mtype)

HeaderSetRemainingLength ==
    \E v \in {-1, 0, 33, 16383, 268435455, 268435456} :
        Step([h |-> SetRemainingLength(msg.h, v).h],
             Call("SetRemainingLength", SetRemainingLength(msg.h, v).err, 0,
                  <<v>>, 0, <<>>))

HeaderSetType ==
    \E mtype \in RESERVED..(RESERVED2 + 1) :
        Step([h |-> SetType(msg.h, mtype).h],
             Call("SetType", SetType(msg.h, mtype).err, 0, <<mtype>>, 0, <<>>))

\* fixedHeader.Decode as a call on the message [h]: [m, r, n, err]
HeaderDecode(m, r) ==
    With(fixedHeaderDecode(m.h, r), LAMBDA d :
        [m |-> [h |-> d.h], r |-> d.r, n |-> d.n, err |-> d.err])

\* fixedHeader.Encode as a call on the message [h]: [m, n, err]
HeaderEncode(m) ==
    With(fixedHeaderEncode(m.h), LAMBDA e :
        [m |-> [h |-> e.h], n |-> e.n, err |-> e.err])

HeaderDecodeFirstByte ==
    \E c \in 0..255 :
        DecodeStep(<<c, 0>>, HeaderDecode(msg, NewReader(<<c, 0>>)))

HeaderDecodeCall ==
    \E rest \in HeaderRests :
        DecodeStep(<<ExpectedByte(msg.h)>> \o rest,
                   HeaderDecode(msg, NewReader(<<ExpectedByte(msg.h)>> \o rest)))

HeaderEncodeCall == EncodeStep(HeaderEncode(msg))

InitHeader ==
    \E mtype \in (RESERVED + 1)..(RESERVED2 - 1) :
        InitWith([h |-> SetType(ZeroHeader, mtype).h])

NextHeader ==
    \/ HeaderSetRemainingLength
    \/ HeaderSetType
    \/ HeaderDecodeFirstByte
    \/ HeaderDecodeCall
    \/ HeaderEncodeCall

SpecHeader == InitHeader /\ [][NextHeader]_vars

-----------------------------------------------------------------------------
(* The remaining length codec: writeVarint32 and fixedHeader.Encode on a    *)
(* header whose remlen field holds any value, and readVarint32 of the      *)
(* bytes written and of other sources.                                     *)

\* values of the remaining length
VarintValues ==
    (0..40) \cup
    { 127, 128, 129, 255, 256, 16383, 16384, 16385, 2097151, 2097152, 2097153,
      268435454, 268435455, 268435456, 268435457, 300000000 }

\* sources readVarint32 reads that writeVarint32 does not write
VarintSources ==
    { <<255, 255, 255, 255>>, <<128, 128, 128, 128, 1>>, <<255, 255, 255, 127>>,
      <<128, 0>>, <<128, 128, 128, 0>>, <<128>>, <<255, 255, 255>>, <<>>,
      <<5, 9>> }

\* writeVarint32 of the header's remaining length into an empty buffer
VarintWritten(w) ==
    Call("writeVarint32", w.err, w.n, <<>>, 0, BufBytes(w.b))

VarintWriteCall == Step(msg, VarintWritten(writeVarint32(EmptyBuf, msg.h.remlen)))

\* readVarint32 of the bytes writeVarint32 wrote
VarintReadBack ==
    /\ cur.op = "writeVarint32" /\ cur.err = "ok" /\ peer = NoPeer
    /\ With(readVarint32(NewReader(cur.out)), LAMBDA v :
           peer' = [op |-> "readVarint32", x |-> v.x, n |-> v.n,
                    err |-> v.err])
    /\ UNCHANGED <<msg, pre, cur, prev, nops>>

\* this.remlen, m, err = readVarint32(this.buf, src) on a source
VarintRead(inp, v) == Call("readVarint32", v.err, v.n, inp, v.used, v.wr)

VarintReadCall ==
    \E inp \in VarintSources :
        Step([msg EXCEPT !.h.remlen = readVarint32(NewReader(inp)).x],
             VarintRead(inp, readVarint32(NewReader(inp))))

InitVarint ==
    \E v \in VarintValues :
        InitWith([h |-> [SetType(ZeroHeader, PUBREL).h EXCEPT !.remlen = v]])

NextVarint ==
    \/ VarintWriteCall
    \/ VarintReadBack
    \/ VarintReadCall
    \/ HeaderEncodeCall

SpecVarint == InitVarint /\ [][NextVarint]_vars

-----------------------------------------------------------------------------
(* The messages together: a message of any of the types above and the      *)
(* calls of its type.                                                      *)

InitCodec ==
    \/ InitWith(NewPubackMessage)
    \/ InitWith(NewPublishMessage)
    \/ InitWith(NewConnackMessage)
    \/ InitWith(NewSubscribeMessage)
    \/ InitConnect

NextCodec ==
    \/ msg.h.mtype = PUBACK /\ NextPuback
    \/ msg.h.mtype = PUBLISH /\ NextPublish
    \/ msg.h.mtype = CONNACK /\ NextConnack
    \/ msg.h.mtype = SUBSCRIBE /\ NextSubscribe
    \/ msg.h.mtype = CONNECT /\ NextConnect

SpecCodec == InitCodec /\ [][NextCodec]_vars

-----------------------------------------------------------------------------
(* CopyMessage(dst, src) on a stream of packets: the state is [src, dst],   *)
(* the reader with its position and the buffer written so far.            *)

\* CopyMessage after the first byte, the remaining length read as v; c1 is
\* what the copy of the first byte returned
CopyMessageBody(c1, v) ==
    With([b |-> BufWrite(c1.b, v.wr),
          r |-> [c1.r EXCEPT !.pos = c1.r.pos + v.used]], LAMBDA s :
        IF v.err # "ok"
        THEN [dst |-> s.b, src |-> s.r, n |-> 1, err |-> v.err]
        ELSE With(CopyN(s.b, s.r, v.x), LAMBDA c2 :
            IF c2.err # "ok"
            THEN [dst |-> c2.b, src |-> c2.r, n |-> 1 + v.n, err |-> c2.err]
            ELSE [dst |-> c2.b, src |-> c2.r, n |-> 1 + v.n + c2.n,
                  err |-> "ok"]))

\* a CopyMessage that leaves the bytes of the remaining length out of dst
CopyMessageNoLength(dst, src) ==
    With(CopyN(dst, src, 1), LAMBDA c1 :
        IF c1.err # "ok"
        THEN [dst |-> c1.b, src |-> c1.r, n |-> 0, err |-> c1.err]
        ELSE CopyMessageBody(c1, [readVarint32(c1.r) EXCEPT !.wr = <<>>]))

\* CopyMessage(dst, src): [dst, src, n, err]
CopyMessage(dst, src) ==
    With(CopyN(dst, src, 1), LAMBDA c1 :
        IF c1.err # "ok"
        THEN [dst |-> c1.b, src |-> c1.r, n |-> 0, err |-> c1.err]
        ELSE CopyMessageBody(c1, readVarint32(c1.r)))

\* the packets of the streams
CopyPackets ==
    { <<192, 0>>, <<64, 2, 0, 7>>, <<48, 4, 0, 1, 97, 120>>,
      <<64, 130, 0, 0, 7>> }

\* what ends a stream: nothing, or the beginning of a packet
CopyTails ==
    { <<>>, <<64>>, <<64, 2, 0>>, <<48, 128>>, <<64, 255, 255, 255, 255, 1>> }

\* streams of up to three packets and a tail
CopyStreams ==
    { t : t \in CopyTails } \cup
    { p \o t : p \in CopyPackets, t \in CopyTails } \cup
    { p \o q \o t : p \in CopyPackets, q \in CopyPackets, t \in CopyTails } \cup
    { p \o q \o <<192, 0>> \o t :
          p \in CopyPackets, q \in CopyPackets, t \in {<<>>, <<64>>} }

\* one call of CopyMessage, c being what it returned
CopyStep(c) ==
    /\ nops < MaxOps
    /\ msg' = [src |-> c.src, dst |-> c.dst]
    /\ pre' = msg
    /\ cur' = Call("CopyMessage", c.err, c.n, Rest(msg.src),
                   c.src.pos - msg.src.pos, <<>>)
    /\ prev' = cur
    /\ peer' = NoPeer
    /\ nops' = nops + 1

CopyMessageCall == CopyStep(CopyMessage(msg.dst, msg.src))

InitCopy ==
    \E stream \in CopyStreams :
        InitWith([src |-> NewReader(stream), dst |-> EmptyBuf])

NextCopy == CopyMessageCall

SpecCopy == InitCopy /\ [][NextCopy]_vars

-----------------------------------------------------------------------------
(* Properties *)

\* the number of remaining-length bytes at the head of source inp: the bytes
\* after the first one, up to and including the first one below 128
LengthBytes(inp) ==
    CHOOSE k \in 1..4 : /\ Len(inp) > k
                        /\ inp[k + 1] < 128
                        /\ \A j \in 1..(k - 1) : inp[j + 1] >= 128

\* C1: a byte sequence that Decode accepts is reproduced exactly by Encode on
\* the decoded packet, which succeeds.  Stated for PublishMessage and for the
\* accepted sequences whose payload is not empty (Encode rejects an empty
\* payload by design).
C1_EncodeOfDecodedReproducesBytes ==
    (/\ cur.op = "Encode"
     /\ prev.op = "Decode" /\ prev.err = "ok"
     /\ SLen(pre.payload) > 0)
    => (cur.err = "ok" /\ cur.out = SubSeq(prev.inp, 1, prev.used))

\* C2: for a ConnectMessage built through the setters on which Encode
\* succeeds, Decode of the encoded bytes into a fresh ConnectMessage succeeds
\* and yields equal fields.  Stated for messages with a client identifier,
\* which a decoder takes with or without clean session.
C2_ConnectDecodeOfEncoded ==
    (peer.op = "Decode" /\ nops = 1 /\ SLen(msg.clientId) > 0)
    => (/\ peer.err = "ok"
        /\ ConnectFields(peer.m) = ConnectFields(msg))

\* C3: Decode returns an error when some of the declared remaining-length
\* bytes are left unconsumed after the body's fields were decoded.  Stated
\* for PubackMessage: no successful Decode leaves unread bytes in the buffer.
C3_TrailingBytesRejected ==
    (cur.op = "Decode" /\ BufLen(msg.h.buf) > 0) => cur.err # "ok"

\* C4: when Decode returns an error, every field of the packet has the value
\* it had before the call.  Stated for PublishMessage: header flags,
\* remaining length, packet identifier, topic and payload.
C4_FailedDecodeLeavesFields ==
    (cur.op = "Decode" /\ cur.err # "ok")
    => (/\ PublishFields(msg) = PublishFields(pre)
        /\ msg.h.remlen = pre.h.remlen)

\* C5: Encode leaves every field other than the header's remaining length
\* unchanged: the accessors return after Encode what they returned before,
\* also on a packet filled by an earlier Decode.  Stated for PublishMessage.
C5_EncodeLeavesFields ==
    cur.op = "Encode" => PublishFields(msg) = PublishFields(pre)

\* the remaining length a PublishMessage.Encode computes from the fields of
\* the message m of lengths
ComputedLength(m) ==
    2 + m.tlen + m.plen + (IF QoS(m.h.flags) # 0 THEN 2 ELSE 0)

\* C6: Connect Decode accepts a packet whose connect flags have the username
\* flag set and the password flag unset, and rejects a packet whose connect
\* flags have the password flag set and the username flag unset.
C6_UsernameWithoutPassword ==
    (cur.op = "Decode" /\ msg.h.mtype = CONNECT)
    => (/\ cur.inp \in UsernameOnlySources => cur.err = "ok"
        /\ cur.inp \in PasswordOnlySources => cur.err # "ok")

\* the ConnectMessage of the end-to-end example: version 4, client
\* identifier "abc", clean session, keep alive 10, no will, username or
\* password, as the setters leave it
ExampleConnect(m) ==
    /\ ConnectFields(m) =
           ConnectFields(Built(4, TRUE, 10, <<97, 98, 99>>, <<>>, 0, FALSE,
                               <<>>, <<>>))
    /\ m.clientId.a = "own"

\* C7, as the specification has it: encoding the example yields the bytes
\* with 0x11 (17) for the remaining length.
C7_ExampleBytesAsStated ==
    (cur.op = "Encode" /\ ExampleConnect(pre))
    => cur.out = <<16, 17, 0, 4, 77, 81, 84, 84, 4, 2, 0, 10, 0, 3, 97, 98, 99>>

\* C7: encoding the example succeeds, returns 17 for the byte count, and
\* yields 17 bytes whose remaining length byte is 0x0F (15), the length of
\* what follows the two bytes of the fixed header.
C7_ExampleBytes ==
    (cur.op = "Encode" /\ ExampleConnect(pre))
    => (/\ cur.err = "ok"
        /\ cur.n = 17
        /\ cur.out =
               <<16, 15, 0, 4, 77, 81, 84, 84, 4, 2, 0, 10, 0, 3, 97, 98, 99>>)

\* the example has been encoded
C7_ExampleEncoded ==
    /\ cur.op = "Encode" /\ ExampleConnect(pre)
    /\ Len(cur.out) = 17

\* C8: Encode returns an error whenever the remaining length computed from
\* the packet's current fields exceeds 268,435,455, and a successful Encode
\* emits a header whose remaining length is the computed one.  Stated for
\* PublishMessage.
C8_EncodeRejectsOverlongLength ==
    cur.op = "Encode"
    => (/\ ComputedLength(pre) > maxRemainingLength => cur.err # "ok"
        /\ cur.err = "ok"
           => readVarintLoop(Tail(cur.out), 0, 0).x = ComputedLength(pre))

\* C9: when Encode fails because a field value is invalid, that call has
\* written no byte to the packet's output buffer.  Stated for ConnackMessage
\* (a return code above 5).
C9_FailedEncodeWritesNothing ==
    (cur.op = "Encode" /\ cur.err # "ok") => msg.h.buf = pre.h.buf

\* C10: when Decode succeeds, the returned count is the number of bytes read
\* from the source, which is 1 + the number of remaining-length bytes + the
\* decoded remaining length.  Stated for PubackMessage.
C10_DecodeCountIsBytesRead ==
    (cur.op = "Decode" /\ cur.err = "ok")
    => (/\ cur.n = cur.used
        /\ cur.used = 1 + LengthBytes(cur.inp) + msg.h.remlen)


\* the topics of a SubscribeMessage, as Topics() returns them, are pairwise
\* different
TopicsUnique(m) ==
    \A i, j \in 1..Len(m.topics) :
        i # j => Val(m.h.buf, m.topics[i]) # Val(m.h.buf, m.topics[j])

\* C11: in every state of a SubscribeMessage reached by AddTopic,
\* RemoveTopic and Decode calls the topic list holds no two equal topics.
C11_TopicsUnique == msg.h.mtype = SUBSCRIBE => TopicsUnique(msg)

\* C12: when Encode succeeds, the returned byte count equals the length of
\* the fixed header plus the header's remaining length, and the remaining
\* length is the sum of the sizes of the fields written.  Stated for
\* PublishMessage over the lengths of its topic and payload, the stream
\* recorded being the fixed header.
C12_EncodeCountIsHeaderPlusLength ==
    (cur.op = "Encode" /\ cur.err = "ok" /\ msg.h.mtype = PUBLISH)
    => (/\ cur.n = Len(cur.out) + msg.h.remlen
        /\ msg.h.remlen = ComputedLength(pre))


\* the first byte c fails the validation of a header of type t: its type
\* nibble is 0 or 15 or not t, or t is not PUBLISH and its flags nibble is
\* not the default of t (2 for Pubrel, Subscribe and Unsubscribe, 0 for the
\* others), or t is PUBLISH and bits 2-1 say QoS 3
BadFirstByte(t, c) ==
    \/ c \div 16 = 0
    \/ c \div 16 = 15
    \/ c \div 16 # t
    \/ t # 3 /\ c % 16 # (IF t \in {6, 8, 10} THEN 2 ELSE 0)
    \/ t = 3 /\ (c \div 2) % 4 = 3

\* C13: Decode of a source [c, 0], an empty packet with first byte c, fails
\* exactly when c fails the validation for the type of the header.
C13_FirstByteValidation ==
    (cur.op = "Decode" /\ Len(cur.inp) = 2 /\ cur.inp[2] = 0)
    => (cur.err # "ok" <=> BadFirstByte(pre.h.mtype, cur.inp[1]))

\* a first byte with a wrong flags nibble was rejected
C13_FlagsRejected ==
    /\ cur.op = "Decode" /\ cur.err # "ok"
    /\ Len(cur.inp) = 2
    /\ cur.inp[1] \div 16 = pre.h.mtype
    /\ pre.h.mtype = SUBSCRIBE

\* C14: when the first byte of the source fails the validation, Decode fails
\* having read exactly one byte of the source.
C14_InvalidFirstByteReadsOne ==
    (/\ cur.op = "Decode" /\ Len(cur.inp) > 0
     /\ BadFirstByte(pre.h.mtype, cur.inp[1]))
    => (cur.err # "ok" /\ cur.used = 1)

\* a Decode failed on its first byte with more bytes left in the source
C14_FailedOnFirstByte ==
    /\ cur.op = "Decode" /\ Len(cur.inp) > 1
    /\ BadFirstByte(pre.h.mtype, cur.inp[1])
    /\ cur.err # "ok"


\* the number a sequence of base-128 groups, least significant first, stands
\* for
RECURSIVE Base128(_)
Base128(bytes) ==
    IF bytes = <<>> THEN 0
    ELSE (Head(bytes) % 128) + 128 * Base128(Tail(bytes))

\* the length of the minimal encoding of v
MinimalLength(v) ==
    IF v <= 127 THEN 1 ELSE IF v <= 16383 THEN 2
    ELSE IF v <= 2097151 THEN 3 ELSE 4

\* C16: for v in 0..268,435,455 writeVarint32 emits the minimal base-128
\* encoding of v, and readVarint32 of those bytes returns v and the same
\* byte count; writeVarint32 and fixedHeader.Encode reject 268,435,456 and
\* above; readVarint32 rejects a sequence whose fourth byte has the
\* continuation bit set.
C16_VarintExact ==
    /\ (cur.op = "writeVarint32" /\ msg.h.remlen <= maxRemainingLength)
       => (/\ cur.err = "ok"
           /\ cur.n = MinimalLength(msg.h.remlen)
           /\ Len(cur.out) = cur.n
           /\ Base128(cur.out) = msg.h.remlen
           /\ \A i \in 1..Len(cur.out) :
                  (cur.out[i] >= 128) <=> (i < Len(cur.out)))
    /\ (cur.op \in {"writeVarint32", "Encode"}
        /\ pre.h.remlen > maxRemainingLength)
       => (cur.err # "ok" /\ cur.out = <<>>)
    /\ peer.op = "readVarint32"
       => (/\ peer.err = "ok"
           /\ peer.x = msg.h.remlen
           /\ peer.n = Len(cur.out))
    /\ (/\ cur.op = "readVarint32" /\ Len(cur.inp) >= 4
        /\ \A i \in 1..4 : cur.inp[i] >= 128)
       => cur.err # "ok"

\* the largest value was written in four bytes and read back
C16_MaxReadBack ==
    /\ peer.op = "readVarint32"
    /\ msg.h.remlen = maxRemainingLength
    /\ Len(cur.out) = 4


\* the source holds a whole remaining length after its first byte
HasLength(inp) ==
    \E k \in 1..4 :
        /\ Len(inp) > k
        /\ inp[k + 1] < 128
        /\ \A j \in 1..(k - 1) : inp[j + 1] >= 128

\* the remaining length the source declares
DeclaredLength(inp) == Base128(SubSeq(inp, 2, 1 + LengthBytes(inp)))

\* the least number of body bytes the fields of a packet of type t need:
\* the packet identifier of Puback and Subscribe, the two bytes of Connack,
\* the topic with its length and the packet identifier for Publish, the
\* protocol name, version, flags, keep alive and length of the client
\* identifier for Connect
BodyNeed(t, inp) ==
    IF t = PUBLISH
    THEN LET body == SubSeq(inp, 2 + LengthBytes(inp), Len(inp))
             pid == IF (inp[1] \div 2) % 4 # 0 THEN 2 ELSE 0
         IN  IF Len(body) < 2 THEN 2 + pid
             ELSE 2 + body[1] * 256 + body[2] + pid
    ELSE IF t = CONNECT THEN 12
    ELSE 2

\* C15: Decode returns an error when the source ends before the declared
\* remaining length has been supplied, and when the body fields need more
\* bytes than the declared remaining length provides.
C15_ShortSourceRejected ==
    (cur.op = "Decode" /\ HasLength(cur.inp))
    => (/\ Len(cur.inp) < 1 + LengthBytes(cur.inp) + DeclaredLength(cur.inp)
           => cur.err # "ok"
        /\ DeclaredLength(cur.inp) < BodyNeed(pre.h.mtype, cur.inp)
           => cur.err # "ok")

\* a Decode of a source with a valid first byte whose declared remaining
\* length is supplied but is less than the body needs has failed
C15_BodyShort ==
    /\ cur.op = "Decode" /\ HasLength(cur.inp)
    /\ ~BadFirstByte(pre.h.mtype, cur.inp[1])
    /\ Len(cur.inp) = 1 + LengthBytes(cur.inp) + DeclaredLength(cur.inp)
    /\ DeclaredLength(cur.inp) < BodyNeed(pre.h.mtype, cur.inp)
    /\ cur.err # "ok"

\* the two bytes of a 16-bit number, high byte first
TwoBytes(n) == <<n \div 256, n % 256>>

\* the bytes of a PUBLISH packet after its fixed header, for the flags,
\* topic, packet identifier and payload of f: the packet identifier is there
\* exactly for QoS 1 and 2
PublishBody(f) ==
    TwoBytes(Len(f.topic)) \o f.topic
    \o (IF (f.flags \div 2) % 4 # 0 THEN TwoBytes(f.packetId) ELSE <<>>)
    \o f.payload

\* C17: for a PublishMessage with a topic and a payload, Encode writes after
\* the topic the two bytes of the packet identifier exactly when QoS is 1 or
\* 2; a Decode that succeeds has read the packet identifier exactly when QoS
\* is 1 or 2; and with QoS 1 or 2 decoding the encoded bytes into a fresh
\* PublishMessage succeeds and restores dup, QoS, retain, topic, packet
\* identifier and payload.
C17_PacketIdWithQoS ==
    /\ (cur.op = "Encode" /\ cur.err = "ok")
       => Len(cur.out) = 2 + Len(PublishBody(PublishFields(pre)))
    /\ (cur.op = "Encode" /\ cur.err = "ok" /\ QoS(pre.h.flags) # 0)
       => SubSeq(cur.out, 5 + SLen(pre.topic), 6 + SLen(pre.topic))
              = TwoBytes(pre.packetId)
    /\ (cur.op = "Decode" /\ cur.err = "ok")
       => SubSeq(cur.inp, 3, Len(cur.inp)) =
              PublishBody([PublishFields(msg) EXCEPT !.packetId =
                              IF QoS(msg.h.flags) = 0 THEN 0 ELSE @])
    /\ (cur.op = "Encode" /\ peer.op = "Decode" /\ QoS(pre.h.flags) # 0)
       => (/\ peer.err = "ok"
           /\ PublishFields(peer.m) = PublishFields(pre))


\* the length of the packet at the beginning of a source that holds a whole
\* remaining length
PacketLength(inp) == 1 + LengthBytes(inp) + DeclaredLength(inp)

\* the source ends before its first packet is complete: it is empty, or
\* ends within the remaining length, or before the declared bytes
EndsEarly(inp) ==
    \/ Len(inp) = 0
    \/ Len(inp) <= 4 /\ \A j \in 2..Len(inp) : inp[j] >= 128
    \/ HasLength(inp) /\ Len(inp) < PacketLength(inp)

\* C18: CopyMessage on a source that begins with a whole packet reads
\* exactly that packet, writes its bytes unmodified to the sink after what
\* the sink holds, and returns their count, so that successive calls copy
\* the packets of a stream one at a time in order; on a source that ends
\* before its first packet is complete it returns an error.
C18_CopiesOnePacket ==
    cur.op = "CopyMessage"
    => (/\ (HasLength(cur.inp) /\ Len(cur.inp) >= PacketLength(cur.inp))
           => (/\ cur.err = "ok"
               /\ cur.n = PacketLength(cur.inp)
               /\ cur.used = cur.n
               /\ msg.src.pos = pre.src.pos + cur.n
               /\ BufBytes(msg.dst) =
                      BufBytes(pre.dst) \o SubSeq(cur.inp, 1, cur.n))
        /\ EndsEarly(cur.inp) => cur.err # "ok"
        /\ cur.err = "ok"
           => BufBytes(msg.dst) = SubSeq(msg.src.data, 1, msg.src.pos))

\* the third packet of a stream has been copied after the first two
C18_ThirdPacketCopied ==
    /\ cur.op = "CopyMessage" /\ cur.err = "ok"
    /\ prev.op = "CopyMessage" /\ prev.err = "ok"
    /\ nops = 3
    /\ pre.src.pos > 0
    /\ BufBytes(msg.dst) = msg.src.data


\* the source is a CONNACK header followed by the two bytes of the body
ConnackBody(inp) ==
    /\ Len(inp) >= 4
    /\ inp[1] = 32
    /\ inp[2] \in 2..127
    /\ Len(inp) >= 2 + inp[2]

\* C19: Connack Decode accepts a two-byte body exactly when the acknowledge
\* flags byte is 0 or 1 and the return code byte is at most 5, and then
\* session-present is bit 0 and the return code is that byte; Encode of
\* (s, c <= 5) yields [0x20, 0x02, s, c], decoding those bytes restores s
\* and c, and Encode returns an error for a return code above 5.
C19_ConnackBody ==
    /\ (cur.op = "Decode" /\ ConnackBody(cur.inp))
       => (/\ cur.err = "ok" <=> (cur.inp[3] \in {0, 1} /\ cur.inp[4] \in 0..5)
           /\ cur.err = "ok"
              => (/\ msg.sessionPresent = (cur.inp[3] = 1)
                  /\ msg.returnCode = cur.inp[4]))
    /\ cur.op = "Encode"
       => (/\ cur.err = "ok" <=> pre.returnCode <= 5
           /\ cur.err = "ok"
              => (/\ cur.out = <<32, 2, IF pre.sessionPresent THEN 1 ELSE 0,
                                 pre.returnCode>>
                  /\ cur.n = 4))
    /\ (cur.op = "Encode" /\ peer.op = "Decode")
       => (/\ peer.err = "ok"
           /\ peer.m.sessionPresent = pre.sessionPresent
           /\ peer.m.returnCode = pre.returnCode)


\* the bytes 0-9, A-Z, a-z
Alphanumeric == (48..57) \cup (65..90) \cup (97..122)

\* the source is a CONNECT packet of version 4 that ends with its client
\* identifier and has no connect flag set but, possibly, clean session
PlainConnect(inp) ==
    /\ Len(inp) >= 14
    /\ SubSeq(inp, 1, 1) = <<16>>
    /\ inp[2] = Len(inp) - 2
    /\ SubSeq(inp, 3, 9) = <<0, 4, 77, 81, 84, 84, 4>>
    /\ inp[10] \in {0, 2}
    /\ inp[13] * 256 + inp[14] = Len(inp) - 14

\* C20: Connect Decode returns identifier-rejected for an empty client
\* identifier with clean session 0 and for a client identifier with a byte
\* outside 0-9, A-Z, a-z; it accepts an empty client identifier with clean
\* session 1 and every non-empty alphanumeric one; SetClientId rejects
\* exactly the identifiers with a byte outside 0-9, A-Z, a-z.
C20_ClientIdRule ==
    /\ (cur.op = "Decode" /\ PlainConnect(cur.inp))
       => IF \/ Len(cur.inp) = 14 /\ cur.inp[10] = 0
             \/ \E i \in 15..Len(cur.inp) : cur.inp[i] \notin Alphanumeric
          THEN cur.err = "identifierrejected"
          ELSE /\ cur.err = "ok"
               /\ ClientId(msg) = SubSeq(cur.inp, 15, Len(cur.inp))
    /\ cur.op = "SetClientId"
       => IF \E i \in 1..Len(cur.inp) : cur.inp[i] \notin Alphanumeric
          THEN /\ cur.err = "identifierrejected"
               /\ ClientId(msg) = ClientId(pre)
          ELSE /\ cur.err = "ok"
               /\ ClientId(msg) = cur.inp

\* SetClientId has rejected an identifier and Decode then an empty one
C20_BothRejected ==
    /\ prev.op = "SetClientId" /\ prev.err = "identifierrejected"
    /\ cur.op = "Decode" /\ cur.err = "identifierrejected"
    /\ PlainConnect(cur.inp) /\ Len(cur.inp) = 14


\* connect flags f that the checks on the flags byte reject, but for the
\* username and password flags
BadConnectFlags(f) ==
    \/ f % 2 = 1
    \/ (f \div 8) % 4 = 3
    \/ (f \div 4) % 2 = 0 /\ ((f \div 8) % 4 # 0 \/ (f \div 32) % 2 = 1)

\* the source is a whole CONNECT packet of version 4 with the one-byte
\* client identifier "a"
FlagsConnect(inp) ==
    /\ Len(inp) >= 15
    /\ inp[2] = Len(inp) - 2
    /\ SubSeq(inp, 1, 1) = <<16>>
    /\ SubSeq(inp, 3, 9) = <<0, 4, 77, 81, 84, 84, 4>>
    /\ SubSeq(inp, 13, 15) = <<0, 1, 97>>

\* C21: Connect Decode returns an error for every connect flags byte with
\* reserved bit 0 set, with will QoS 3, or with the will flag 0 and will QoS
\* non-zero or will retain 1, and for no other flags byte without username
\* and password flags; with the will flag 1 it reads the will topic and then
\* the will message right after the client identifier.
C21_ConnectFlagsChecked ==
    (cur.op = "Decode" /\ FlagsConnect(cur.inp))
    => (/\ BadConnectFlags(cur.inp[10])
           => (/\ cur.err \in {"reservedbit", "invalidqos", "willflags"}
               /\ cur.n = 10)
        /\ (/\ ~BadConnectFlags(cur.inp[10]) /\ cur.inp[10] < 64
            /\ Len(cur.inp) = 15 + 7 * Bit(cur.inp[10], 2))
           => cur.err = "ok"
        /\ (~BadConnectFlags(cur.inp[10]) /\ Bit(cur.inp[10], 2) = 1)
           => IF Len(cur.inp) >= 22
              THEN /\ cur.err = "ok"
                   /\ ConnectFields(msg).willTopic = SubSeq(cur.inp, 18, 18)
                   /\ ConnectFields(msg).willMessage = SubSeq(cur.inp, 21, 22)
              ELSE cur.err # "ok")

\* will topic "t" and will message "mn" have been read after flags that
\* set will retain without the will flag were rejected
C21_WillRead ==
    /\ prev.op = "Decode" /\ prev.err = "willflags" /\ prev.inp[10] = 32
    /\ cur.op = "Decode" /\ cur.err = "ok" /\ cur.inp[10] = 44
    /\ ConnectFields(msg).willTopic = <<116>>
    /\ ConnectFields(msg).willMessage = <<109, 110>>


\* the topic is empty or holds a '#' or a '*'
BadTopic(t) == Len(t) = 0 \/ \E i \in 1..Len(t) : t[i] \in {35, 42}

\* the source is a whole PUBLISH packet with its topic, and with the packet
\* identifier when the QoS is not 0
WholePublish(inp) ==
    /\ Len(inp) >= 4
    /\ inp[1] \in {48, 50}
    /\ inp[2] = Len(inp) - 2
    /\ inp[2] < 128
    /\ inp[3] = 0
    /\ Len(inp) >= 4 + inp[4] + (IF inp[1] = 50 THEN 2 ELSE 0)

\* C22: SetTopic and Decode of PublishMessage each return an error exactly
\* when the topic is empty or holds a '#' or a '*'; every other topic is
\* accepted and becomes the topic, and a rejected SetTopic leaves the topic
\* as it was.
C22_TopicRule ==
    /\ cur.op = "SetTopic"
       => IF BadTopic(cur.inp)
          THEN /\ cur.err # "ok"
               /\ PublishFields(msg) = PublishFields(pre)
          ELSE /\ cur.err = "ok"
               /\ PublishFields(msg).topic = cur.inp
    /\ (cur.op = "Decode" /\ WholePublish(cur.inp))
       => IF BadTopic(SubSeq(cur.inp, 5, 4 + cur.inp[4]))
          THEN cur.err # "ok"
          ELSE /\ cur.err = "ok"
               /\ PublishFields(msg).topic = SubSeq(cur.inp, 5, 4 + cur.inp[4])

\* "a/b" has been accepted by SetTopic and by Decode, and a topic with a
\* '*' then rejected by SetTopic
C22_AcceptedThenRejected ==
    /\ prev.op = "Decode" /\ prev.err = "ok"
    /\ prev.inp = <<48, 6, 0, 3, 97, 47, 98, 120>>
    /\ cur.op = "SetTopic" /\ cur.err # "ok" /\ cur.inp = <<97, 47, 42>>
    /\ PublishFields(msg).topic = <<97, 47, 98>>


\* the return codes a SUBACK may hold
ReturnCodeValues == {0, 1, 2, 128}

\* the source is a whole SUBACK packet with its packet identifier
WholeSuback(inp) ==
    /\ Len(inp) >= 4
    /\ SubSeq(inp, 1, 1) = <<144>>
    /\ inp[2] < 128
    /\ inp[2] = Len(inp) - 2

\* C23: AddReturnCode, AddReturnCodes, Decode and Encode of SubackMessage
\* each return an error when one of the return codes given, decoded or held
\* is not 0, 1, 2 or 0x80, and succeed otherwise.
C23_ReturnCodesChecked ==
    /\ cur.op \in {"AddReturnCodes", "AddReturnCode"}
       => (cur.err = "ok"
           <=> \A i \in 1..Len(cur.inp) : cur.inp[i] \in ReturnCodeValues)
    /\ (cur.op = "Decode" /\ WholeSuback(cur.inp))
       => (cur.err = "ok"
           <=> \A i \in 5..Len(cur.inp) : cur.inp[i] \in ReturnCodeValues)
    /\ cur.op = "Encode"
       => (cur.err = "ok"
           <=> \A i \in 1..Len(ReturnCodes(pre)) :
                   ReturnCodes(pre)[i] \in ReturnCodeValues)

\* Encode has failed on the invalid code a failed Decode left, after an
\* AddReturnCode of 0x80 succeeded
C23_EncodeRejected ==
    /\ prev.op = "Decode" /\ prev.err = "invalidcode"
    /\ cur.op = "Encode" /\ cur.err = "invalidcode"
    /\ 129 \in { ReturnCodes(pre)[i] : i \in 1..Len(ReturnCodes(pre)) }


\* C30: an AddReturnCodes (or AddReturnCode) that returns an error leaves
\* the list of return codes as it was before the call.
C30_AddReturnCodesAtomic ==
    (cur.op \in {"AddReturnCodes", "AddReturnCode"} /\ cur.err # "ok")
    => ReturnCodes(msg) = ReturnCodes(pre)


\* C24: a packet that holds a packet identifier only encodes to the four
\* bytes [type<<4 | default flags, 0x02, id high, id low], and Decode of
\* these bytes into a fresh packet of the type returns 4 and restores the
\* identifier.  Stated for PubackMessage (type 4, default flags 0), with
\* which the other such packets share the fixed header.
C24_AckPacketBytes ==
    /\ cur.op = "Encode"
       => (/\ cur.err = "ok"
           /\ cur.n = 4
           /\ cur.out = <<PUBACK * 16 + DefaultFlags(PUBACK), 2>>
                            \o TwoBytes(pre.packetId))
    /\ (cur.op = "Encode" /\ peer.op = "Decode")
       => (/\ peer.err = "ok"
           /\ peer.n = 4
           /\ peer.m.packetId = pre.packetId)


\* C25: but for PUBLISH the flags of a header are the default flags of its
\* type in every state, whatever calls of SetType, Decode (failed or not)
\* and Encode were made, so that Encode writes them; SetType accepts the
\* types 1..14 and no other, SetRemainingLength the values 0..268,435,455
\* and no other, and a rejected call leaves the header as it was.
C25_FlagsAreDefault ==
    /\ msg.h.mtype # PUBLISH => msg.h.flags = DefaultFlags(msg.h.mtype)
    /\ (cur.op = "Encode" /\ cur.err = "ok" /\ pre.h.mtype # PUBLISH)
       => cur.out[1] = pre.h.mtype * 16 + DefaultFlags(pre.h.mtype)
    /\ cur.op = "SetType"
       => IF cur.inp[1] \in 1..14
          THEN cur.err = "ok" /\ msg.h.mtype = cur.inp[1]
          ELSE cur.err # "ok" /\ msg = pre
    /\ cur.op = "SetRemainingLength"
       => IF cur.inp[1] \in 0..268435455
          THEN cur.err = "ok" /\ msg.h.remlen = cur.inp[1]
          ELSE cur.err # "ok" /\ msg = pre


\* C26: in every state of a SubscribeMessage the topic list and the QoS
\* list have the same length, whatever calls of AddTopic, RemoveTopic and
\* Decode (failed or not) were made, and no call indexes the QoS list out
\* of its range.
C26_TopicsAndQosAligned ==
    /\ Len(msg.topics) = Len(msg.qos)
    /\ cur.err # "panic"


\* the field values of message m, by its type
FieldsOf(m) ==
    IF m.h.mtype = PUBLISH THEN PublishFields(m)
    ELSE IF m.h.mtype = SUBSCRIBE THEN SubscribeFields(m)
    ELSE IF m.h.mtype = CONNECT THEN ConnectFields(m)
    ELSE IF m.h.mtype = CONNACK
    THEN [sessionPresent |-> m.sessionPresent, returnCode |-> m.returnCode]
    ELSE [packetId |-> m.packetId]

\* the field values of a freshly constructed message of type mtype after
\* Decode of inp
FreshDecoded(mtype, inp) ==
    IF mtype = PUBLISH
    THEN PublishFields(PublishDecode(NewPublishMessage, NewReader(inp)).m)
    ELSE IF mtype = SUBSCRIBE
    THEN SubscribeFields(SubscribeDecode(NewSubscribeMessage, NewReader(inp)).m)
    ELSE IF mtype = CONNECT
    THEN ConnectFields(ConnectDecode(NewConnectMessage, NewReader(inp)).m)
    ELSE IF mtype = CONNACK
    THEN FieldsOf(ConnackDecode(NewConnackMessage, NewReader(inp)).m)
    ELSE FieldsOf(PubackDecode(NewPubackMessage, NewReader(inp)).m)

\* C27: a successful Decode leaves the message with the field values that
\* Decode of the same bytes leaves in a freshly constructed message of the
\* type, whatever Decode and setter calls were made on it before.
C27_DecodeForgetsThePast ==
    (cur.op = "Decode" /\ cur.err = "ok")
    => FieldsOf(msg) = FreshDecoded(msg.h.mtype, cur.inp)


\* C28: an Encode that follows a successful Encode with no call in between
\* succeeds with the same count, and the stream it returns holds that many
\* bytes, the same encoding once more and nothing of the earlier output.
C28_EncodeRepeatable ==
    (prev.op = "Encode" /\ prev.err = "ok" /\ cur.op = "Encode")
    => (/\ cur.err = "ok"
        /\ cur.n = prev.n
        /\ Len(cur.out) = cur.n
        /\ cur.out = prev.out)


\* C29: after any calls of SetWillTopic, SetWillMessage, SetUsername and
\* SetPassword on a new ConnectMessage the will flag is set exactly when
\* the will topic or the will message is not empty, the username flag
\* exactly when the username is not empty and the password flag exactly
\* when the password is not empty; and none of these calls changes the
\* clean session, will QoS, will retain or reserved bits.
C29_FlagsFollowFields ==
    /\ WillFlag(msg) <=> (SLen(msg.willTopic) > 0 \/ SLen(msg.willMessage) > 0)
    /\ UsernameFlag(msg) <=> SLen(msg.username) > 0
    /\ PasswordFlag(msg) <=> SLen(msg.password) > 0
    /\ cur.op \in {"SetWillTopic", "SetWillMessage", "SetUsername", "SetPassword"}
       => (/\ CleanSession(msg) = CleanSession(pre)
           /\ WillQos(msg) = WillQos(pre)
           /\ WillRetain(msg) = WillRetain(pre)
           /\ Bit(msg.connectFlags, 0) = Bit(pre.connectFlags, 0))

\* the will topic has been emptied while the will message is not empty, and
\* the will flag is still set, with will QoS 2 and will retain kept
C29_WillFlagKept ==
    /\ cur.op = "SetWillTopic"
    /\ SLen(pre.willTopic) > 0 /\ SLen(msg.willTopic) = 0
    /\ SLen(msg.willMessage) > 0
    /\ WillFlag(msg) /\ WillQos(msg) = 2 /\ WillRetain(msg)
    /\ prev.op = "SetUsername" /\ UsernameFlag(msg)

=============================================================================
